---- MODULE Spec2Model ----
(***************************************************************************)
(* A model of the Monkey bytecode pipeline: the code package (opcode      *)
(* definitions, Make, ReadOperands), the compiler, the object package's   *)
(* hashing protocol, the tree-walking evaluator's expression fragment and *)
(* the stack virtual machine.  Offsets into byte buffers, the stack and   *)
(* the frame stack are 0-based as in the source; TLA+ sequences are       *)
(* 1-based, so element i of a Go slice s is s[i + 1].                     *)
(***************************************************************************)
EXTENDS Integers, Sequences, FiniteSets, TLC

VARIABLES
    compiler,    \* the *Compiler in use
    compileErrs, \* what each Compile call returned ("nil" or a message)
    program,     \* the nodes handed to Compile so far, in call order
    vm,          \* the *VM
    runErr,      \* what Run returned ("nil" or a message)
    pc,          \* where the driver is
    call,        \* the last call of a library function and its result
    trail,       \* history: the VM before each of the last two fetches
    spAt,        \* history: sp when the fetch at an offset last happened
    stored       \* history: the value each SetGlobal last took, by slot

vars ==
    <<compiler, compileErrs, program, vm, runErr, pc, call, trail, spAt, stored>>

(***************************************************************************)
(* Bounds of the model.                                                    *)
(***************************************************************************)
\* Width, in bits, of the model's Integer payload.  The source's int64
\* arithmetic wraps modulo 2^64; the model wraps modulo 2^IntBits.
IntBits == 5
\* Largest statement count of a generated block.
MaxStmts == 2
\* Number of Compile calls made on one Compiler.
MaxCompiles == 2
\* Number of lines the REPL reads in one session.
MaxSubmissions == 3
\* Depth of the blocks put around a statement of an evaluated program.
MaxDepth == 2
\* Length of the byte sequences given to the disassembler, and the number
\* of lines it may write for one of them.
MaxBytes == 3
MaxLines == 4
\* Number of loop iterations that RunAhead takes in one step.
Stride == 64

MinInt == -(2 ^ (IntBits - 1))
MaxInt == (2 ^ (IntBits - 1)) - 1

\* Two's-complement wrap of an exact result into the Integer width.
Wrap(x) == ((x - MinInt) % (2 ^ IntBits)) + MinInt

Nil == [Type |-> "nil"]

(***************************************************************************)
(* package code                                                            *)
(***************************************************************************)
OpConstant == 0
OpPop == 1
OpAdd == 2
OpSub == 3
OpMul == 4
OpDiv == 5
OpTrue == 6
OpFalse == 7
OpEqual == 8
OpNotEqual == 9
OpGreaterThan == 10
OpMinus == 11
OpBang == 12
OpJumpNotTruthy == 13
OpJump == 14
OpNull == 15
OpGetGlobal == 16
OpSetGlobal == 17
OpArray == 18
OpHash == 19
OpIndex == 20
\* Used by the VM's Run; their declarations are not in the code package
\* at hand, so they take the next two values of the dense numbering.
OpCall == 21
OpReturnValue == 22

Def(name, widths) == [Name |-> name, OperandWidths |-> widths]

definitions ==
    (OpConstant :> Def("OpConstant", <<2>>)) @@
    (OpAdd :> Def("OpAdd", <<>>)) @@
    (OpPop :> Def("OpPop", <<>>)) @@
    (OpSub :> Def("OpSub", <<>>)) @@
    (OpMul :> Def("OpMul", <<>>)) @@
    (OpDiv :> Def("OpDiv", <<>>)) @@
    (OpTrue :> Def("OpTrue", <<>>)) @@
    (OpFalse :> Def("OpFalse", <<>>)) @@
    (OpEqual :> Def("OpEqual", <<>>)) @@
    (OpNotEqual :> Def("OpNotEqual", <<>>)) @@
    (OpGreaterThan :> Def("OpGreaterThan", <<>>)) @@
    (OpMinus :> Def("OpNot", <<>>)) @@
    (OpBang :> Def("OpBang", <<>>)) @@
    (OpJumpNotTruthy :> Def("OpJumpNotTruthy", <<2>>)) @@
    (OpJump :> Def("OpJump", <<2>>)) @@
    (OpNull :> Def("OpNull", <<>>)) @@
    (OpGetGlobal :> Def("OpGetGlobal", <<2>>)) @@
    (OpSetGlobal :> Def("OpSetGlobal", <<2>>)) @@
    (OpArray :> Def("OpArray", <<2>>)) @@
    (OpHash :> Def("OpHash", <<2>>)) @@
    (OpIndex :> Def("OpIndex", <<>>))

\* Lookup(op): the definition and the error.
Lookup(op) ==
    IF op \in DOMAIN definitions THEN [def |-> definitions[op], err |-> "nil"]
    ELSE [def |-> Nil, err |-> "opcode undefined"]

RECURSIVE SumSeq(_)
SumSeq(s) == IF s = <<>> THEN 0 ELSE Head(s) + SumSeq(Tail(s))

\* s[from:] of a Go slice (0-based from).
SliceFrom(s, from) == SubSeq(s, from + 1, Len(s))

PutUint16LittleEndian(o) == <<(o % 65536) % 256, (o % 65536) \div 256>>

\* binary.BigEndian.PutUint16 of uint16(o): the two bytes, high first.
PutUint16(o) == <<(o % 65536) \div 256, (o % 65536) % 256>>

\* The bytes Make writes for the operands, in order; an operand whose width
\* is not 2 leaves its bytes zero.
RECURSIVE MakeOperands(_, _)
MakeOperands(widths, operands) ==
    IF widths = <<>> THEN <<>>
    ELSE (IF operands = <<>> THEN [i \in 1..Head(widths) |-> 0]
          ELSE IF Head(widths) = 2 THEN PutUint16(Head(operands))
          ELSE [i \in 1..Head(widths) |-> 0])
         \o MakeOperands(Tail(widths),
                         IF operands = <<>> THEN <<>> ELSE Tail(operands))

\* Make(op, operands...): callers pass at most one operand per operand width
\* (a longer list indexes OperandWidths out of range).
Make(op, operands) ==
    IF op \notin DOMAIN definitions THEN <<>>
    ELSE <<op>> \o MakeOperands(definitions[op].OperandWidths, operands)

\* binary.BigEndian.Uint16 of the first two bytes.
ReadUint16(ins) == ins[1] * 256 + ins[2]

\* The operands ReadOperands decodes and the offset it ends at.
RECURSIVE ReadOperandsFrom(_, _, _)
ReadOperandsFrom(widths, ins, offset) ==
    IF widths = <<>> THEN [operands |-> <<>>, offset |-> offset]
    ELSE LET rest == ReadOperandsFrom(Tail(widths), ins, offset + Head(widths))
             o == IF Head(widths) = 2 THEN ReadUint16(SliceFrom(ins, offset))
                  ELSE 0
         IN  [operands |-> <<o>> \o rest.operands, offset |-> rest.offset]

ReadOperands(def, ins) == ReadOperandsFrom(def.OperandWidths, ins, 0)

(***************************************************************************)
(* package ast: the node kinds the compiler and the evaluator dispatch on. *)
(***************************************************************************)
NoNode == [kind |-> "nil"]
StringLiteral(bytes) == [kind |-> "StringLiteral", Value |-> bytes]
Identifier(name) == [kind |-> "Identifier", Value |-> name]
LetStatement(name, value) ==
    [kind |-> "LetStatement", Name |-> name, Value |-> value]
ReturnStatement(value) == [kind |-> "ReturnStatement", ReturnValue |-> value]
FunctionLiteral(params, body) ==
    [kind |-> "FunctionLiteral", Parameters |-> params, Body |-> body]
CallExpression(function, args) ==
    [kind |-> "CallExpression", Function |-> function, Arguments |-> args]
IntegerLiteral(n) == [kind |-> "IntegerLiteral", Value |-> n]
BooleanLit(b) == [kind |-> "Boolean", Bool |-> b]
PrefixExpression(op, right) ==
    [kind |-> "PrefixExpression", Operator |-> op, Right |-> right]
InfixExpression(op, left, right) ==
    [kind |-> "InfixExpression", Operator |-> op, Left |-> left,
     Right |-> right]
BlockStatement(stmts) == [kind |-> "BlockStatement", Statements |-> stmts]
IfExpression(cond, cons, alt) ==
    [kind |-> "IfExpression", Condition |-> cond, Consequence |-> cons,
     Alternative |-> alt]
ExpressionStatement(e) == [kind |-> "ExpressionStatement", Expression |-> e]
Program(stmts) == [kind |-> "Program", Statements |-> stmts]

(***************************************************************************)
(* package object: the values.                                             *)
(***************************************************************************)
Integer(n) == [Type |-> "INTEGER", Value |-> n]
\* vm.True, vm.False and vm.Null: the process-wide singletons; id stands
\* for the address of the one allocation.
True == [Type |-> "BOOLEAN", Bool |-> TRUE, id |-> -1]
False == [Type |-> "BOOLEAN", Bool |-> FALSE, id |-> -2]
Null == [Type |-> "NULL", id |-> -3]

(***************************************************************************)
(* package compiler                                                        *)
(***************************************************************************)
EmittedInstruction(op, pos) == [Opcode |-> op, Position |-> pos]

\* compiler.New(): the zero EmittedInstruction is {Opcode: 0, Position: 0}.
\* `ifSpans` is history, not a field of the source: the <<first offset,
\* end offset>> of the code of every if-expression compiled so far.  So is
\* `window`: whether lastInstruction named the last instruction of the
\* buffer after every emit and every removeLastPop so far.
New ==
    [instructions |-> <<>>,
     constants |-> <<>>,
     lastInstruction |-> EmittedInstruction(0, 0),
     previousInstruction |-> EmittedInstruction(0, 0),
     ifSpans |-> {},
     window |-> TRUE]

\* The buffer is empty, or lastInstruction holds the opcode and the start of
\* the instruction that ends where the buffer ends.
WindowNamesLast(c) ==
    \/ c.instructions = <<>>
    \/ LET op == c.lastInstruction.Opcode
           pos == c.lastInstruction.Position
       IN  /\ pos < Len(c.instructions)
           /\ c.instructions[pos + 1] = op
           /\ Lookup(op).err = "nil"
           /\ pos + 1 + SumSeq(Lookup(op).def.OperandWidths)
                 = Len(c.instructions)

NoteWindow(c) == [c EXCEPT !.window = @ /\ WindowNamesLast(c)]

addConstantFirst(c, obj) == [c EXCEPT !.constants = <<obj>> \o @]

\* The state after addConstant; the index it returns is Len(c.constants).
addConstant(c, obj) == [c EXCEPT !.constants = Append(@, obj)]

lastInstructionIsPop(c) == c.lastInstruction.Opcode = OpPop

removeLastPopKeepsLast(c) ==
    NoteWindow([c EXCEPT !.instructions =
                             SubSeq(@, 1, c.lastInstruction.Position)])

removeLastPop(c) ==
    NoteWindow([c EXCEPT !.instructions =
                             SubSeq(@, 1, c.lastInstruction.Position),
                         !.lastInstruction = c.previousInstruction])

setLastInstruction(c, op, pos) ==
    [c EXCEPT !.previousInstruction = c.lastInstruction,
              !.lastInstruction = EmittedInstruction(op, pos)]

\* The state after addInstruction; the position it returns is
\* Len(c.instructions) of the state before.
addInstruction(c, ins) == [c EXCEPT !.instructions = @ \o ins]

\* The state after emit; the position it returns is Len(c.instructions)
\* of the state before.
emit(c, op, operands) ==
    NoteWindow(setLastInstruction(addInstruction(c, Make(op, operands)), op,
                                  Len(c.instructions)))

replaceInstructionSpliced(c, pos, newInstruction) ==
    [c EXCEPT !.instructions =
        SubSeq(@, 1, pos) \o newInstruction \o SubSeq(@, pos + 2, Len(@))]

replaceInstruction(c, pos, newInstruction) ==
    [c EXCEPT !.instructions =
        [i \in 1..Len(@) |->
            IF i - 1 >= pos /\ i - 1 < pos + Len(newInstruction)
            THEN newInstruction[i - pos] ELSE @[i]]]

changeOperandSkipped(c, opPos, operand) == c

changeOperand(c, opPos, operand) ==
    replaceInstruction(c, opPos, Make(c.instructions[opPos + 1], <<operand>>))

Ok(c) == [c |-> c, err |-> "nil"]
Err(c, msg) == [c |-> c, err |-> msg]

InfixOpcode(operator) ==
    CASE operator = "+" -> OpAdd
      [] operator = "-" -> OpSub
      [] operator = "*" -> OpMul
      [] operator = "/" -> OpDiv
      [] operator = "==" -> OpEqual
      [] operator = "!=" -> OpNotEqual
      [] operator = ">" -> OpGreaterThan
      [] OTHER -> -1

RECURSIVE Compile(_, _)

\* The loop of the Program and BlockStatement cases: the first error ends it.
RECURSIVE CompileEach(_, _)
CompileEach(c, stmts) ==
    IF stmts = <<>> THEN Ok(c)
    ELSE LET r == Compile(c, Head(stmts))
         IN  IF r.err # "nil" THEN r ELSE CompileEach(r.c, Tail(stmts))

CompileInfixLeftFirst(c, node) ==
    LET l == Compile(c, node.Left)
    IN  IF l.err # "nil" THEN l
        ELSE LET r == Compile(l.c, node.Right)
             IN  IF r.err # "nil" THEN r
                 ELSE IF node.Operator = "<"
                      THEN Ok(emit(r.c, OpGreaterThan, <<>>))
                      ELSE IF InfixOpcode(node.Operator) = -1
                           THEN Err(r.c, "unknown operator")
                           ELSE Ok(emit(r.c, InfixOpcode(node.Operator), <<>>))

CompileInfix(c, node) ==
    IF node.Operator = "<"
    THEN LET r == Compile(c, node.Right)
         IN  IF r.err # "nil" THEN r
             ELSE LET l == Compile(r.c, node.Left)
                  IN  IF l.err # "nil" THEN l
                      ELSE Ok(emit(l.c, OpGreaterThan, <<>>))
    ELSE LET l == Compile(c, node.Left)
         IN  IF l.err # "nil" THEN l
             ELSE LET r == Compile(l.c, node.Right)
                  IN  IF r.err # "nil" THEN r
                      ELSE IF InfixOpcode(node.Operator) = -1
                           THEN Err(r.c, "unknown operator")
                           ELSE Ok(emit(r.c, InfixOpcode(node.Operator), <<>>))

CompilePrefix(c, node) ==
    LET r == Compile(c, node.Right)
    IN  IF r.err # "nil" THEN r
        ELSE CASE node.Operator = "!" -> Ok(emit(r.c, OpBang, <<>>))
               [] node.Operator = "-" -> Ok(emit(r.c, OpMinus, <<>>))
               [] OTHER -> Err(r.c, "unknown operator")

\* The branch's trailing Pop, if the window says there is one, is removed.
StripPop(c) == IF lastInstructionIsPop(c) THEN removeLastPop(c) ELSE c

NoteIf(c, from) ==
    [c EXCEPT !.ifSpans = @ \cup {<<from, Len(c.instructions)>>}]

CompileIf(c, node) ==
    LET cond == Compile(c, node.Condition)
    IN  IF cond.err # "nil" THEN cond
        ELSE
        LET jumpNotTruthPos == Len(cond.c.instructions)
            c1 == emit(cond.c, OpJumpNotTruthy, <<9999>>)
            cons == Compile(c1, node.Consequence)
        IN  IF cons.err # "nil" THEN cons
            ELSE
            LET c2 == StripPop(cons.c)
                jumpPos == Len(c2.instructions)
                c3 == emit(c2, OpJump, <<9999>>)
                endOfConsequencePos == Len(c3.instructions)
                c4 == changeOperand(c3, jumpNotTruthPos, endOfConsequencePos)
            IN  IF node.Alternative.kind = "nil"
                THEN LET c5 == emit(c4, OpNull, <<>>)
                     IN  Ok(NoteIf(changeOperand(c5, jumpPos,
                                                 Len(c5.instructions)),
                                   Len(c.instructions)))
                ELSE LET alt == Compile(c4, node.Alternative)
                     IN  IF alt.err # "nil" THEN alt
                         ELSE LET c5 == StripPop(alt.c)
                              IN  Ok(NoteIf(changeOperand(c5, jumpPos,
                                                          Len(c5.instructions)),
                                            Len(c.instructions)))

\* Compile(node): the compiler state it leaves and the error it returns.
\* A node of a kind the switch has no case for leaves the state as it is
\* and returns nil.
Compile(c, node) ==
    CASE node.kind = "Program" -> CompileEach(c, node.Statements)
      [] node.kind = "ExpressionStatement" ->
            LET r == Compile(c, node.Expression)
            IN  IF r.err # "nil" THEN r ELSE Ok(emit(r.c, OpPop, <<>>))
      [] node.kind = "InfixExpression" -> CompileInfix(c, node)
      [] node.kind = "IntegerLiteral" ->
            Ok(emit(addConstant(c, Integer(node.Value)), OpConstant,
                    <<Len(c.constants)>>))
      [] node.kind = "PrefixExpression" -> CompilePrefix(c, node)
      [] node.kind = "IfExpression" -> CompileIf(c, node)
      [] node.kind = "BlockStatement" -> CompileEach(c, node.Statements)
      [] node.kind = "Boolean" ->
            Ok(emit(c, IF node.Bool THEN OpTrue ELSE OpFalse, <<>>))
      [] OTHER -> Ok(c)

\* Bytecode(): the instructions and the constants of the compiler.
Bytecode(c) == [Instructions |-> c.instructions, Constants |-> c.constants]


(***************************************************************************)
(* package object: heap values and the hashing protocol.  A 64-bit        *)
(* unsigned digest is the tuple of its four 16-bit limbs, lowest first.   *)
(* Values that the VM compares by pointer carry the identity `id` of      *)
(* their allocation.                                                       *)
(***************************************************************************)
String(id, bytes) == [Type |-> "STRING", Str |-> bytes, id |-> id]
Array(id, elements) == [Type |-> "ARRAY", Elements |-> elements, id |-> id]
Hash(id, pairs) == [Type |-> "HASH", Pairs |-> pairs, id |-> id]
CompiledFunction(id, ins) ==
    [Type |-> "COMPILED_FUNCTION_OBJ", Instructions |-> ins, id |-> id]
HashPair(key, value) == [Key |-> key, Value |-> value]
HashKeyOf(type, digest) == [Type |-> type, Value |-> digest]

\* Bitwise exclusive or of two naturals.
RECURSIVE Xor(_, _)
Xor(a, b) ==
    IF a = 0 THEN b
    ELSE IF b = 0 THEN a
    ELSE 2 * Xor(a \div 2, b \div 2) + ((a + b) % 2)

\* uint64(v) of a signed integer v (sign extension).
Uint64(v) ==
    <<v % 65536, (v \div 65536) % 65536,
      IF v < 0 THEN 65535 ELSE 0, IF v < 0 THEN 65535 ELSE 0>>

\* The carries of a limb-wise result, propagated modulo 2^64.
Carry(r) ==
    LET c1 == r[2] + (r[1] \div 65536)
        c2 == r[3] + (c1 \div 65536)
        c3 == r[4] + (c2 \div 65536)
    IN  <<r[1] % 65536, c1 % 65536, c2 % 65536, c3 % 65536>>

\* hash/fnv: offset64 = 14695981039346656037 = 0xcbf29ce484222325 and
\* prime64 = 1099511628211 = 0x100000001b3.
FnvOffset64 == <<8997, 33826, 40164, 52210>>
FnvMulPrime64(h) ==
    Carry(<<h[1] * 435, h[2] * 435, h[3] * 435 + h[1] * 256,
            h[4] * 435 + h[2] * 256>>)

\* fnv.New64a, Write(bytes), Sum64.
RECURSIVE Fnv64a(_, _)
Fnv64a(h, bytes) ==
    IF bytes = <<>> THEN h
    ELSE Fnv64a(FnvMulPrime64(<<Xor(h[1], Head(bytes)), h[2], h[3], h[4]>>),
                Tail(bytes))

Hashable(obj) == obj.Type \in {"INTEGER", "BOOLEAN", "STRING"}

HashKey(obj) ==
    CASE obj.Type = "BOOLEAN" ->
            HashKeyOf("BOOLEAN", IF obj.Bool THEN <<1, 0, 0, 0>>
                                 ELSE <<0, 0, 0, 0>>)
      [] obj.Type = "INTEGER" -> HashKeyOf("INTEGER", Uint64(obj.Value))
      [] obj.Type = "STRING" -> HashKeyOf("STRING", Fnv64a(FnvOffset64, obj.Str))

(***************************************************************************)
(* package vm                                                              *)
(***************************************************************************)
StackSize == 2048
GlobalsSize == 65536
MaxFrames == 1024

\* NewFrame(fn): a frame's ip is -1 before its first fetch.
NewFrame(fn) == [fn |-> fn, ip |-> -1]

\* vm.New(bytecode).  The stack, the globals and the frame stack are Go
\* slices of fixed length whose unwritten slots are nil: `stack` and
\* `frames` hold the slots up to the highest one written, `globals` the
\* written slots.  `nextId` is the identity the next allocation gets.
NewVM(bytecode) ==
    [constants |-> bytecode.Constants,
     stack |-> <<>>,
     sp |-> 0,
     globals |-> <<>>,
     frames |-> <<NewFrame(CompiledFunction(0, bytecode.Instructions))>>,
     framesIndex |-> 1,
     nextId |-> 1]

NewWithGlobalsStoreFresh(bytecode, s) == NewVM(bytecode)

\* vm.globals = s: the VM's globals is the caller's slice, not a copy.
NewWithGlobalsStore(bytecode, s) == [NewVM(bytecode) EXCEPT !.globals = s]

StackAt(m, i) == IF i < Len(m.stack) THEN m.stack[i + 1] ELSE Nil
GlobalAt(m, i) == IF i \in DOMAIN m.globals THEN m.globals[i] ELSE Nil

\* What a handler leaves: the VM, and whether it went on ("ok"), returned an
\* error ("error") or hit a Go run-time panic ("panic").
Ok2(m) == [vm |-> m, out |-> "ok", err |-> "nil"]
Err2(m, msg) == [vm |-> m, out |-> "error", err |-> msg]
Panic(m, msg) == [vm |-> m, out |-> "panic", err |-> msg]

StackTop(m) == IF m.sp = 0 THEN Nil ELSE StackAt(m, m.sp - 1)

StackTopElem(m) == StackTop(m)

\* LastPoppedStackElem(): vm.stack[vm.sp].
LastPoppedStackElem(m) == StackAt(m, m.sp)

pushOffByOne(m, obj) ==
    IF m.sp > StackSize THEN Err2(m, "stack overflow, oh no")
    ELSE Ok2([m EXCEPT
                !.stack = IF m.sp < Len(@) THEN [@ EXCEPT ![m.sp + 1] = obj]
                          ELSE Append(@, obj),
                !.sp = @ + 1])

push(m, obj) ==
    IF m.sp >= StackSize THEN Err2(m, "stack overflow, oh no")
    ELSE Ok2([m EXCEPT
                !.stack = IF m.sp < Len(@) THEN [@ EXCEPT ![m.sp + 1] = obj]
                          ELSE Append(@, obj),
                !.sp = @ + 1])

\* pop() on a stack that holds a value: the VM it leaves; the value it
\* returns is StackTop of the VM before.  With sp = 0 it indexes stack[-1].
pop(m) == [m EXCEPT !.sp = @ - 1]

currentFrame(m) == m.frames[m.framesIndex]

pushFrameInPlace(m, f) == [m EXCEPT !.frames[m.framesIndex] = f]

pushFrame(m, f) ==
    [m EXCEPT !.frames = IF m.framesIndex < Len(@)
                         THEN [@ EXCEPT ![m.framesIndex + 1] = f]
                         ELSE Append(@, f),
              !.framesIndex = @ + 1]

popFrameKept(m) == m

popFrame(m) == [m EXCEPT !.framesIndex = @ - 1]

SetIp(m, v) == [m EXCEPT !.frames[m.framesIndex].ip = v]
AddIpOfEveryFrame(m, d) ==
    [m EXCEPT !.frames = [k \in 1..Len(m.frames) |->
                            [m.frames[k] EXCEPT !.ip = @ + d]]]

AddIp(m, d) == [m EXCEPT !.frames[m.framesIndex].ip = @ + d]

nativeBoolToBooleanObjectFresh(input) ==
    [Type |-> "BOOLEAN", Bool |-> input, id |-> -9]

nativeBoolToBooleanObject(input) == IF input THEN True ELSE False

isTruthyAlways(obj) == TRUE

isTruthyZeroFalsy(obj) ==
    CASE obj.Type = "BOOLEAN" -> obj.Bool
      [] obj.Type = "NULL" -> FALSE
      [] obj.Type = "INTEGER" -> obj.Value # 0
      [] OTHER -> TRUE

isTruthy(obj) ==
    CASE obj.Type = "BOOLEAN" -> obj.Bool
      [] obj.Type = "NULL" -> FALSE
      [] OTHER -> TRUE

\* right == left on two object.Object interface values: pointer identity.
\* An Integer is never the same allocation as another operand that reaches
\* the comparison.
SameObject(a, b) ==
    /\ a.Type = b.Type
    /\ CASE a.Type = "nil" -> TRUE
         [] a.Type = "INTEGER" -> FALSE
         [] OTHER -> a.id = b.id

\* Go's integer division truncates toward zero.
TruncDiv(a, b) ==
    LET abs(x) == IF x < 0 THEN -x ELSE x
        q == abs(a) \div abs(b)
    IN  IF (a < 0) = (b < 0) THEN q ELSE -q


executeBinaryIntegerOperationReversed(m, op, left, right) ==
    LET leftValue == right.Value
        rightValue == left.Value
    IN  CASE op = OpAdd -> push(m, Integer(Wrap(leftValue + rightValue)))
          [] op = OpSub -> push(m, Integer(Wrap(leftValue - rightValue)))
          [] op = OpMul -> push(m, Integer(Wrap(leftValue * rightValue)))
          [] op = OpDiv ->
                IF rightValue = 0
                THEN Panic(m, "runtime error: integer divide by zero")
                ELSE push(m, Integer(Wrap(TruncDiv(leftValue, rightValue))))
          [] OTHER -> Err2(m, "unknown integer operator")

executeBinaryIntegerOperationTotal(m, op, left, right) ==
    LET leftValue == left.Value
        rightValue == right.Value
    IN  CASE op = OpAdd -> push(m, Integer(Wrap(leftValue + rightValue)))
          [] op = OpSub -> push(m, Integer(Wrap(leftValue - rightValue)))
          [] op = OpMul -> push(m, Integer(Wrap(leftValue * rightValue)))
          [] op = OpDiv ->
                IF rightValue = 0
                THEN push(m, Integer(0))
                ELSE push(m, Integer(Wrap(TruncDiv(leftValue, rightValue))))
          [] OTHER -> Err2(m, "unknown integer operator")

executeBinaryIntegerOperation(m, op, left, right) ==
    LET leftValue == left.Value
        rightValue == right.Value
    IN  CASE op = OpAdd -> push(m, Integer(Wrap(leftValue + rightValue)))
          [] op = OpSub -> push(m, Integer(Wrap(leftValue - rightValue)))
          [] op = OpMul -> push(m, Integer(Wrap(leftValue * rightValue)))
          [] op = OpDiv ->
                IF rightValue = 0
                THEN Panic(m, "runtime error: integer divide by zero")
                ELSE push(m, Integer(Wrap(TruncDiv(leftValue, rightValue))))
          [] OTHER -> Err2(m, "unknown integer operator")

executeBinaryStringOperation(m, op, left, right) ==
    IF op # OpAdd THEN Err2(m, "unknown string operator")
    ELSE push([m EXCEPT !.nextId = @ + 1],
              String(m.nextId, left.Str \o right.Str))

executeBinaryOperationSwapped(m, op) ==
    IF m.sp < 2 THEN Panic(m, "index out of range [-1]")
    ELSE
    LET left == StackAt(m, m.sp - 1)
        right == StackAt(m, m.sp - 2)
        m2 == pop(pop(m))
    IN  IF left.Type = "nil" \/ right.Type = "nil"
        THEN Panic(m2, "nil pointer dereference")
        ELSE CASE left.Type = "INTEGER" /\ right.Type = "INTEGER" ->
                    executeBinaryIntegerOperation(m2, op, left, right)
               [] left.Type = "STRING" /\ right.Type = "STRING" ->
                    executeBinaryStringOperation(m2, op, left, right)
               [] OTHER -> Err2(m2, "Unsupported types for binary operation")

\* m is the VM before the two pops.
executeBinaryOperation(m, op) ==
    IF m.sp < 2 THEN Panic(m, "index out of range [-1]")
    ELSE
    LET right == StackAt(m, m.sp - 1)
        left == StackAt(m, m.sp - 2)
        m2 == pop(pop(m))
    IN  IF left.Type = "nil" \/ right.Type = "nil"
        THEN Panic(m2, "nil pointer dereference")
        ELSE CASE left.Type = "INTEGER" /\ right.Type = "INTEGER" ->
                    executeBinaryIntegerOperation(m2, op, left, right)
               [] left.Type = "STRING" /\ right.Type = "STRING" ->
                    executeBinaryStringOperation(m2, op, left, right)
               [] OTHER -> Err2(m2, "Unsupported types for binary operation")

executeIntegerComparison(m, op, left, right) ==
    LET leftValue == left.Value
        rightValue == right.Value
    IN  CASE op = OpEqual ->
                push(m, nativeBoolToBooleanObject(leftValue = rightValue))
          [] op = OpNotEqual ->
                push(m, nativeBoolToBooleanObject(leftValue # rightValue))
          [] op = OpGreaterThan ->
                push(m, nativeBoolToBooleanObject(leftValue > rightValue))
          [] OTHER -> Err2(m, "Unknown operator")

executeComparison(m, op) ==
    IF m.sp < 2 THEN Panic(m, "index out of range [-1]")
    ELSE
    LET right == StackAt(m, m.sp - 1)
        left == StackAt(m, m.sp - 2)
        m2 == pop(pop(m))
    IN  IF right.Type = "nil" \/ (right.Type = "INTEGER" /\ left.Type = "nil")
        THEN Panic(m2, "nil pointer dereference")
        ELSE IF right.Type = "INTEGER" /\ left.Type = "INTEGER"
        THEN executeIntegerComparison(m2, op, left, right)
        ELSE CASE op = OpEqual ->
                    push(m2, nativeBoolToBooleanObject(SameObject(right, left)))
               [] op = OpNotEqual ->
                    push(m2, nativeBoolToBooleanObject(~SameObject(right, left)))
               [] OTHER ->
                    IF left.Type = "nil"
                    THEN Panic(m2, "nil pointer dereference")
                    ELSE Err2(m2, "Unsupported operator")

executeBangOperationZeroFalsy(m) ==
    IF m.sp < 1 THEN Panic(m, "index out of range [-1]")
    ELSE LET right == StackTop(m)
         IN  IF \/ SameObject(right, False)
                \/ SameObject(right, Null)
                \/ (right.Type = "INTEGER" /\ right.Value = 0)
             THEN push(pop(m), True)
             ELSE push(pop(m), False)

executeBangOperation(m) ==
    IF m.sp < 1 THEN Panic(m, "index out of range [-1]")
    ELSE LET right == StackTop(m)
         IN  IF SameObject(right, False) \/ SameObject(right, Null)
             THEN push(pop(m), True)
             ELSE push(pop(m), False)

executeMinusOperationSaturating(m) ==
    IF m.sp < 1 THEN Panic(m, "index out of range [-1]")
    ELSE LET right == StackTop(m)
         IN  IF right.Type = "nil"
             THEN Panic(pop(m), "nil pointer dereference")
             ELSE IF right.Type # "INTEGER"
             THEN Err2(pop(m), "Minus operator only works on integers")
             ELSE push(pop(m), Integer(IF -right.Value > MaxInt THEN MaxInt
                                       ELSE -right.Value))

executeMinusOperation(m) ==
    IF m.sp < 1 THEN Panic(m, "index out of range [-1]")
    ELSE LET right == StackTop(m)
         IN  IF right.Type = "nil"
             THEN Panic(pop(m), "nil pointer dereference")
             ELSE IF right.Type # "INTEGER"
             THEN Err2(pop(m), "Minus operator only works on integers")
             ELSE push(pop(m), Integer(Wrap(-right.Value)))

executeHashIndexOperation(m, hashObj, index) ==
    IF index.Type = "nil" THEN Panic(m, "nil pointer dereference")
    ELSE IF ~Hashable(index) THEN Err2(m, "Index is not hashable")
    ELSE IF HashKey(index) \notin DOMAIN hashObj.Pairs THEN push(m, Null)
    ELSE push(m, hashObj.Pairs[HashKey(index)].Value)

executeArrayIndexOperationStrict(m, array, index) ==
    IF index.Value < 0 \/ index.Value >= Len(array.Elements)
    THEN Err2(m, "index out of range")
    ELSE push(m, array.Elements[index.Value + 1])

executeArrayIndexOperation(m, array, index) ==
    IF index.Value < 0 \/ index.Value >= Len(array.Elements)
    THEN push(m, Null)
    ELSE push(m, array.Elements[index.Value + 1])

executeIndexOperation(m) ==
    IF m.sp < 2 THEN Panic(m, "index out of range [-1]")
    ELSE
    LET index == StackAt(m, m.sp - 1)
        container == StackAt(m, m.sp - 2)
        m2 == pop(pop(m))
    IN  IF container.Type = "nil" THEN Panic(m2, "nil pointer dereference")
        ELSE IF container.Type = "ARRAY" /\ index.Type = "nil"
        THEN Panic(m2, "nil pointer dereference")
        ELSE IF container.Type = "ARRAY" /\ index.Type = "INTEGER"
        THEN executeArrayIndexOperation(m2, container, index)
        ELSE IF container.Type = "HASH"
        THEN executeHashIndexOperation(m2, container, index)
        ELSE IF index.Type = "nil" THEN Panic(m2, "nil pointer dereference")
        ELSE Err2(m2, "Unknown operands for index")


popElementsInPopOrder(m, size) ==
    [i \in 1..size |-> StackAt(m, m.sp - i)]

\* The loop of the OpArray case: arr[i-1] = vm.pop() for i from size down
\* to 1, so the k-th pop (which reads slot sp - k) fills arr[size - k].
popElements(m, size) ==
    [i \in 1..size |-> StackAt(m, m.sp - (size - i + 1))]

\* The loop of the OpHash case, from the VM before an iteration: `left`
\* iterations remain and `pairs` holds what the earlier ones stored.
RECURSIVE BuildPairs(_, _, _)
BuildPairs(m, left, pairs) ==
    IF left = 0 THEN [vm |-> m, out |-> "ok", err |-> "nil", pairs |-> pairs]
    ELSE IF m.sp < 2
    THEN [vm |-> m, out |-> "panic", err |-> "index out of range [-1]",
          pairs |-> pairs]
    ELSE
    LET val == StackAt(m, m.sp - 1)
        key == StackAt(m, m.sp - 2)
        m2 == pop(pop(m))
    IN  IF key.Type = "nil"
        THEN [vm |-> m2, out |-> "panic", err |-> "nil pointer dereference",
              pairs |-> pairs]
        ELSE IF ~Hashable(key)
        THEN [vm |-> m2, out |-> "error", err |-> "Value not hashable as key",
              pairs |-> pairs]
        ELSE BuildPairs(m2, left - 1,
                        (HashKey(key) :> HashPair(key, val)) @@ pairs)

\* One iteration of Run's loop, from a VM whose loop condition holds: the
\* pre-increment of ip, the fetch and the case of the opcode.
RunStep(m) ==
    LET m1 == AddIp(m, 1)
        ip == currentFrame(m1).ip
        ins == currentFrame(m1).fn.Instructions
        op == ins[ip + 1]
        short == Len(ins) - (ip + 1) < 2
        operand == ReadUint16(SliceFrom(ins, ip + 1))
        m3 == AddIp(m1, 2)
        oob == Panic(m1, "index out of range")
    IN  CASE op = OpConstant ->
                IF short \/ operand >= Len(m.constants) THEN oob
                ELSE push(m3, m.constants[operand + 1])
          [] op \in {OpAdd, OpSub, OpMul, OpDiv} -> executeBinaryOperation(m1, op)
          [] op \in {OpEqual, OpNotEqual, OpGreaterThan} ->
                executeComparison(m1, op)
          [] op = OpTrue -> push(m1, True)
          [] op = OpFalse -> push(m1, False)
          [] op = OpBang -> executeBangOperation(m1)
          [] op = OpMinus -> executeMinusOperation(m1)
          [] op = OpJump -> IF short THEN oob ELSE Ok2(SetIp(m1, operand - 1))
          [] op = OpJumpNotTruthy ->
                IF short \/ m1.sp < 1 THEN oob
                ELSE IF ~isTruthy(StackTop(m1))
                     THEN Ok2(SetIp(pop(m3), operand - 1))
                     ELSE Ok2(pop(m3))
          [] op = OpNull -> push(m1, Null)
          [] op = OpSetGlobal ->
                IF short \/ m1.sp < 1 THEN oob
                ELSE Ok2([pop(m3) EXCEPT
                            !.globals = (operand :> StackTop(m1)) @@ @])
          [] op = OpGetGlobal ->
                IF short THEN oob ELSE push(m3, GlobalAt(m1, operand))
          [] op = OpArray ->
                IF short \/ m1.sp < operand THEN oob
                ELSE push([m3 EXCEPT !.sp = @ - operand, !.nextId = @ + 1],
                          Array(m1.nextId, popElements(m1, operand)))
          [] op = OpHash ->
                IF short THEN oob
                ELSE LET b == BuildPairs(m3, (operand + 1) \div 2, <<>>)
                     IN  IF b.out # "ok" THEN [vm |-> b.vm, out |-> b.out,
                                               err |-> b.err]
                         ELSE push([b.vm EXCEPT !.nextId = @ + 1],
                                   Hash(m1.nextId, b.pairs))
          [] op = OpIndex -> executeIndexOperation(m1)
          [] op = OpReturnValue ->
                IF m1.sp < 2 THEN oob
                ELSE push(pop(popFrame(pop(m1))), StackTop(m1))
          [] op = OpCall ->
                IF m1.sp < 1 THEN oob
                ELSE IF StackTop(m1).Type # "COMPILED_FUNCTION_OBJ"
                THEN Err2(m1, "calling non-function")
                ELSE IF m1.framesIndex >= MaxFrames THEN oob
                ELSE Ok2(pushFrame(m1, NewFrame(StackTop(m1))))
          [] op = OpPop -> IF m1.sp < 1 THEN oob ELSE Ok2(pop(m1))
          [] OTHER -> Ok2(m1)

\* The condition of Run's loop; with no frame left currentFrame() indexes
\* frames[-1].
RunCondition(m) ==
    currentFrame(m).ip < Len(currentFrame(m).fn.Instructions) - 1


(***************************************************************************)
(* package evaluator: the tree-walking Eval on the expression fragment     *)
(* (literals, prefix, infix and if-expressions, blocks, expression         *)
(* statements, programs).  A Go run-time panic is the value GoPanic.       *)
(***************************************************************************)
Error(msg) == [Type |-> "ERROR", Message |-> msg]
GoPanic == [Type |-> "panic"]

isError(obj) == obj.Type = "ERROR"
IsPanic(obj) == obj.Type = "panic"

evalBangOperatorExpression(expr) ==
    CASE SameObject(expr, True) -> False
      [] SameObject(expr, False) -> True
      [] SameObject(expr, Null) -> True
      [] OTHER -> False

evalMinusPrefixOperatorExpression(expr) ==
    IF expr.Type = "nil" THEN GoPanic
    ELSE IF expr.Type # "INTEGER" THEN Error("unknown operator: -")
    ELSE Integer(Wrap(-expr.Value))

evalPrefixExpression(operator, expr) ==
    CASE operator = "!" -> evalBangOperatorExpression(expr)
      [] operator = "-" -> evalMinusPrefixOperatorExpression(expr)
      [] OTHER -> IF expr.Type = "nil" THEN GoPanic
                  ELSE Error("unknown operator")

evalIntegerInfixExpression(operator, left, right) ==
    LET leftVal == left.Value
        rightVal == right.Value
    IN  CASE operator = "+" -> Integer(Wrap(leftVal + rightVal))
          [] operator = "-" -> Integer(Wrap(leftVal - rightVal))
          [] operator = "*" -> Integer(Wrap(leftVal * rightVal))
          [] operator = "/" ->
                IF rightVal = 0 THEN GoPanic
                ELSE Integer(Wrap(TruncDiv(leftVal, rightVal)))
          [] operator = "<" -> nativeBoolToBooleanObject(leftVal < rightVal)
          [] operator = ">" -> nativeBoolToBooleanObject(leftVal > rightVal)
          [] operator = "==" -> nativeBoolToBooleanObject(leftVal = rightVal)
          [] operator = "!=" -> nativeBoolToBooleanObject(leftVal # rightVal)
          [] OTHER -> Error("unknown operator")

evalInfixExpression(operator, left, right) ==
    IF left.Type = "nil" \/ (left.Type = "INTEGER" /\ right.Type = "nil")
    THEN GoPanic
    ELSE CASE left.Type = "INTEGER" /\ right.Type = "INTEGER" ->
                evalIntegerInfixExpression(operator, left, right)
           [] operator = "==" ->
                nativeBoolToBooleanObject(SameObject(left, right))
           [] operator = "!=" ->
                nativeBoolToBooleanObject(~SameObject(left, right))
           [] right.Type = "nil" -> GoPanic
           [] left.Type # right.Type -> Error("type mismatch")
           [] OTHER -> Error("unknown operator")

\* The evaluator's isTruthy compares with its three singletons.
evalIsTruthy(obj) ==
    CASE SameObject(obj, Null) -> FALSE
      [] SameObject(obj, True) -> TRUE
      [] SameObject(obj, False) -> FALSE
      [] OTHER -> TRUE

\* Values that only the evaluator makes; id is the allocation, as for the
\* heap values of the VM.
ReturnValue(id, v) == [Type |-> "RETURN_VALUE", Value |-> v, id |-> id]
FunctionValue(id, params, body, env) ==
    [Type |-> "FUNCTION", Parameters |-> params, Body |-> body, Env |-> env,
     id |-> id]

\* The evaluator's heap: the environments made so far (an *Environment is
\* its index in envs, 0 is nil), the identity of the next allocation, and,
\* as history, the integer literals evaluated so far, in order.
NewEnvironment(h) ==
    [h EXCEPT !.envs = Append(@, [store |-> <<>>, outer |-> 0])]
NewEnclosedEnvironment(h, outer) ==
    [h EXCEPT !.envs = Append(@, [store |-> <<>>, outer |-> outer])]
NewHeap == NewEnvironment([envs |-> <<>>, nextId |-> 1, log |-> <<>>])

RECURSIVE Get(_, _, _)
Get(h, e, name) ==
    IF name \in DOMAIN h.envs[e].store
    THEN [val |-> h.envs[e].store[name], ok |-> TRUE]
    ELSE IF h.envs[e].outer # 0 THEN Get(h, h.envs[e].outer, name)
    ELSE [val |-> Nil, ok |-> FALSE]

SetOutermost(h, e, name, val) ==
    [h EXCEPT !.envs[1].store = (name :> val) @@ @]

Set(h, e, name, val) ==
    [h EXCEPT !.envs[e].store = (name :> val) @@ @]

\* What Eval leaves: the value it returns and the heap.
Evaled(val, h) == [val |-> val, h |-> h]
Allocated(h) == [h EXCEPT !.nextId = @ + 1]

\* The value ends the evaluation around it: an Error, which every caller
\* tests with isError, or a Go panic, which no caller sees.
Stops(obj) == IsPanic(obj) \/ isError(obj)

RECURSIVE EvalIn(_, _, _)

\* evalProgram's loop: `result` is the value of the statement before.
RECURSIVE evalProgram(_, _, _, _)
evalProgram(statements, env, h, result) ==
    IF statements = <<>> THEN Evaled(result, h)
    ELSE LET r == EvalIn(Head(statements), env, h)
         IN  CASE r.val.Type = "RETURN_VALUE" -> Evaled(r.val.Value, r.h)
               [] Stops(r.val) -> r
               [] OTHER -> evalProgram(Tail(statements), env, r.h, r.val)

RECURSIVE evalBlockStatementThrough(_, _, _, _)
evalBlockStatementThrough(statements, env, h, result) ==
    IF statements = <<>> THEN Evaled(result, h)
    ELSE LET r == EvalIn(Head(statements), env, h)
         IN  IF r.val.Type = "RETURN_VALUE" \/ IsPanic(r.val) THEN r
             ELSE evalBlockStatementThrough(Tail(statements), env, r.h, r.val)

RECURSIVE evalBlockStatement(_, _, _, _)
evalBlockStatement(statements, env, h, result) ==
    IF statements = <<>> THEN Evaled(result, h)
    ELSE LET r == EvalIn(Head(statements), env, h)
         IN  IF r.val.Type = "RETURN_VALUE" \/ Stops(r.val) THEN r
             ELSE evalBlockStatement(Tail(statements), env, r.h, r.val)

evalIfExpression(ie, env, h) ==
    LET condition == EvalIn(ie.Condition, env, h)
    IN  IF Stops(condition.val) THEN condition
        ELSE IF evalIsTruthy(condition.val)
        THEN EvalIn(ie.Consequence, env, condition.h)
        ELSE IF ie.Alternative.kind # "nil"
        THEN EvalIn(ie.Alternative, env, condition.h)
        ELSE Evaled(Null, condition.h)

evalIdentifier(node, env, h) ==
    LET g == Get(h, env, node.Value)
    IN  IF g.ok THEN Evaled(g.val, h)
        ELSE Evaled(Error("identifier not found"), h)

evalLetStatement(node, env, h) ==
    LET value == EvalIn(node.Value, env, h)
    IN  IF Stops(value.val) THEN value
        ELSE Evaled(Nil, Set(value.h, env, node.Name, value.val))

\* evalExpressions' loop: the values so far are `result`; an Error is
\* returned as a list of its own.
RECURSIVE evalExpressions(_, _, _, _)
evalExpressions(exps, env, h, result) ==
    IF exps = <<>> THEN [vals |-> result, h |-> h]
    ELSE LET evaluated == EvalIn(Head(exps), env, h)
         IN  IF Stops(evaluated.val)
             THEN [vals |-> <<evaluated.val>>, h |-> evaluated.h]
             ELSE evalExpressions(Tail(exps), env, evaluated.h,
                                  Append(result, evaluated.val))

RECURSIVE BindParameters(_, _, _, _, _)
BindParameters(h, env, params, args, paramIdx) ==
    IF paramIdx > Len(params) THEN h
    ELSE BindParameters(Set(h, env, params[paramIdx], args[paramIdx]),
                        env, params, args, paramIdx + 1)

\* The new environment and the heap that holds it.
extendFunctionEnv(fn, args, h) ==
    LET enclosed == NewEnclosedEnvironment(h, fn.Env)
        env == Len(enclosed.envs)
    IN  [env |-> env,
         h |-> BindParameters(enclosed, env, fn.Parameters, args, 1)]

unwrapReturnValue(obj) ==
    IF obj.Type = "RETURN_VALUE" THEN obj.Value ELSE obj

\* args[paramIdx] with fewer arguments than parameters is out of range.
applyFunction(fn, args, h) ==
    IF fn.Type = "nil" THEN Evaled(GoPanic, h)
    ELSE IF fn.Type # "FUNCTION" THEN Evaled(Error("not a function"), h)
    ELSE IF Len(args) < Len(fn.Parameters) THEN Evaled(GoPanic, h)
    ELSE LET extended == extendFunctionEnv(fn, args, h)
             evaluated == EvalIn(fn.Body, extended.env, extended.h)
         IN  Evaled(unwrapReturnValue(evaluated.val), evaluated.h)

EvalIn(node, env, h) ==
    CASE node.kind = "Program" -> evalProgram(node.Statements, env, h, Nil)
      [] node.kind = "PrefixExpression" ->
            LET right == EvalIn(node.Right, env, h)
            IN  IF Stops(right.val) THEN right
                ELSE Evaled(evalPrefixExpression(node.Operator, right.val),
                            right.h)
      [] node.kind = "StringLiteral" ->
            Evaled(String(h.nextId, node.Value), Allocated(h))
      [] node.kind = "FunctionLiteral" ->
            Evaled(FunctionValue(h.nextId, node.Parameters, node.Body, env),
                   Allocated(h))
      [] node.kind = "CallExpression" ->
            LET function == EvalIn(node.Function, env, h)
            IN  IF Stops(function.val) THEN function
                ELSE LET args == evalExpressions(node.Arguments, env,
                                                 function.h, <<>>)
                     IN  IF Len(args.vals) = 1 /\ Stops(args.vals[1])
                         THEN Evaled(args.vals[1], args.h)
                         ELSE applyFunction(function.val, args.vals, args.h)
      [] node.kind = "InfixExpression" ->
            LET left == EvalIn(node.Left, env, h)
            IN  IF Stops(left.val) THEN left
                ELSE LET right == EvalIn(node.Right, env, left.h)
                     IN  IF Stops(right.val) THEN right
                         ELSE Evaled(evalInfixExpression(node.Operator,
                                                         left.val, right.val),
                                     right.h)
      [] node.kind = "ExpressionStatement" -> EvalIn(node.Expression, env, h)
      [] node.kind = "IfExpression" -> evalIfExpression(node, env, h)
      [] node.kind = "LetStatement" -> evalLetStatement(node, env, h)
      [] node.kind = "BlockStatement" ->
            evalBlockStatement(node.Statements, env, h, Nil)
      [] node.kind = "IntegerLiteral" ->
            Evaled(Integer(node.Value),
                   [h EXCEPT !.log = Append(@, node.Value)])
      [] node.kind = "Identifier" -> evalIdentifier(node, env, h)
      [] node.kind = "ReturnStatement" ->
            LET evaluated == EvalIn(node.ReturnValue, env, h)
            IN  IF Stops(evaluated.val) THEN evaluated
                ELSE Evaled(ReturnValue(evaluated.h.nextId, evaluated.val),
                            Allocated(evaluated.h))
      [] node.kind = "Boolean" ->
            Evaled(nativeBoolToBooleanObject(node.Bool), h)
      [] OTHER -> Evaled(Nil, h)

\* The value of Eval(node, env) for env a new environment.
Eval(node, env) == EvalIn(node, 1, NewHeap).val


(***************************************************************************)
(* Inputs.                                                                 *)
(***************************************************************************)
SeqsUpTo(S, n) == UNION {[1..k -> S] : k \in 0..n}

Lit(n) == IntegerLiteral(n)
ES(e) == ExpressionStatement(e)
Block1(e) == BlockStatement(<<ES(e)>>)

LitInts == {0, 1, 2, MaxInt}
Lits == {Lit(n) : n \in LitInts} \cup {BooleanLit(TRUE), BooleanLit(FALSE)}
PrefixOps == {"!", "-"}
InfixOps == {"+", "-", "*", "/", "<", ">", "==", "!="}

\* Expressions without an if-expression.
Simple ==
    Lits
    \cup {PrefixExpression(o, a) : o \in PrefixOps, a \in Lits}
    \cup {InfixExpression(o, a, b) : o \in InfixOps, a \in Lits, b \in Lits}
    \cup {PrefixExpression("-", PrefixExpression("-", a)) : a \in Lits}
    \cup {InfixExpression("-", PrefixExpression("-", Lit(MaxInt)), Lit(1))}

Conds ==
    {BooleanLit(TRUE), BooleanLit(FALSE), Lit(0),
     InfixExpression("<", Lit(1), Lit(2)),
     PrefixExpression("!", Lit(1))}

InnerIf == IfExpression(BooleanLit(TRUE), Block1(Lit(2)), NoNode)
InnerIfElse ==
    IfExpression(BooleanLit(FALSE), Block1(Lit(1)), Block1(BooleanLit(TRUE)))

EmptyIf == IfExpression(BooleanLit(TRUE), BlockStatement(<<>>), NoNode)

BlockStmts == {ES(Lit(1)), ES(BooleanLit(FALSE)), ES(InnerIf)}
Blocks == {BlockStatement(b) : b \in SeqsUpTo(BlockStmts, MaxStmts)}
AltStmts == {ES(Lit(2)), ES(InnerIfElse)}
Alts == {NoNode} \cup {BlockStatement(b) : b \in SeqsUpTo(AltStmts, MaxStmts)}

Ifs == {IfExpression(c, b, a) : c \in Conds, b \in Blocks, a \in Alts}

\* If-expressions as the condition of another and as operands.
Nested ==
    {IfExpression(i, Block1(Lit(1)), Block1(Lit(2))) :
        i \in {InnerIf, InnerIfElse,
               IfExpression(BooleanLit(FALSE), Block1(Lit(1)), NoNode)}}
    \cup {InfixExpression(o, Lit(1), i) :
            o \in {"+", "<"}, i \in {InnerIf, InnerIfElse}}
    \cup {InfixExpression("-", i, j) :
            i \in {InnerIf, InnerIfElse}, j \in {InnerIf, InnerIfElse}}
    \cup {PrefixExpression(o, i) : o \in PrefixOps,
                                   i \in {InnerIf, InnerIfElse}}
    \cup {IfExpression(BooleanLit(TRUE), BlockStatement(b), NoNode) :
            b \in {<<ES(EmptyIf)>>, <<ES(Lit(1)), ES(EmptyIf)>>,
                   <<ES(EmptyIf), ES(Lit(1))>>}}
    \cup {InfixExpression("+", Lit(1), EmptyIf),
          InfixExpression("+", Lit(1),
              IfExpression(BooleanLit(TRUE),
                           BlockStatement(<<ES(EmptyIf), ES(Lit(2))>>),
                           NoNode))}

\* Nodes with an operator that the compiler has no opcode for.
Unknown ==
    {InfixExpression("&", Lit(1), Lit(2)), PrefixExpression("~", Lit(1)),
     IfExpression(BooleanLit(TRUE),
                  Block1(InfixExpression("&", Lit(1), Lit(2))), NoNode),
     IfExpression(BooleanLit(TRUE), Block1(Lit(1)),
                  Block1(PrefixExpression("~", Lit(1))))}

Exprs == Simple \cup Ifs \cup Nested \cup Unknown

LeadStmts == {ES(Lit(2)), ES(InnerIfElse)}
Leads == {<<>>} \cup {<<l>> : l \in LeadStmts}

Programs ==
    {Program(<<>>)} \cup {Program(l \o <<ES(e)>>) : l \in Leads, e \in Exprs}

(***************************************************************************)
(* The driver: Compile on a new Compiler, then vm.New on its bytecode and  *)
(* Run, one iteration of Run's loop at a time.                             *)
(***************************************************************************)
NoCall == [fn |-> "none"]

Init ==
    /\ compiler = New
    /\ compileErrs = <<>>
    /\ program = <<>>
    /\ vm = NewVM(Bytecode(New))
    /\ runErr = "nil"
    /\ pc = "start"
    /\ call = NoCall
    /\ trail = <<>>
    /\ spAt = <<>>
    /\ stored = <<>>

CompileNode(node) ==
    LET r == Compile(compiler, node)
    IN  /\ compiler' = r.c
        /\ compileErrs' = Append(compileErrs, r.err)
        /\ program' = Append(program, node)
        /\ pc' = "compiled"
        /\ call' = [fn |-> "Compile", constants |-> compiler.constants]
        /\ UNCHANGED <<vm, runErr, trail, spAt, stored>>

\* c := compiler.New(); err := c.Compile(program)
DoCompile ==
    /\ pc = "start"
    /\ \E node \in Programs : CompileNode(node)

\* machine := vm.New(c.Bytecode()), made when Compile returned no error.
StartVM ==
    /\ pc = "compiled"
    /\ \A i \in 1..Len(compileErrs) : compileErrs[i] = "nil"
    /\ vm' = NewVM(Bytecode(compiler))
    /\ pc' = "run"
    /\ UNCHANGED <<compiler, compileErrs, program, runErr, call, trail, spAt, stored>>

\* The opcode the next iteration of Run's loop fetches, and its offset.
NextOffset(m) == currentFrame(m).ip + 1
NextOp(m) == currentFrame(m).fn.Instructions[NextOffset(m) + 1]

\* The two-byte operand after the opcode the next iteration fetches.
NextOperand(m) ==
    ReadUint16(SliceFrom(currentFrame(m).fn.Instructions, NextOffset(m) + 1))

LastTwo(s) == IF Len(s) <= 2 THEN s ELSE SubSeq(s, Len(s) - 1, Len(s))

\* Run's progress: the VM, the error Run returns and where Run is.
Progress(m, err, at) == [vm |-> m, runErr |-> err, pc |-> at]

CanIterate(st) ==
    st.pc = "run" /\ st.vm.framesIndex >= 1 /\ RunCondition(st.vm)

SteppedIgnoringError(st) ==
    IF ~CanIterate(st) THEN st
    ELSE LET r == RunStep(st.vm)
         IN  Progress(r.vm,
                      IF r.out = "ok" THEN st.runErr ELSE r.err,
                      IF r.out = "panic" THEN "panicked" ELSE "run")

\* One iteration of Run's loop from `st`, if the loop is there to iterate.
Stepped(st) ==
    IF ~CanIterate(st) THEN st
    ELSE LET r == RunStep(st.vm)
         IN  Progress(r.vm,
                      IF r.out = "ok" THEN st.runErr ELSE r.err,
                      CASE r.out = "ok" -> "run"
                        [] r.out = "error" -> "returned"
                        [] r.out = "panic" -> "panicked")

RECURSIVE SteppedTimes(_, _)
SteppedTimes(st, n) ==
    IF n = 0 \/ ~CanIterate(st) THEN st
    ELSE LET next == Stepped(st)
         IN  IF next.pc = "run" THEN SteppedTimes(next, n - 1) ELSE next

\* One iteration of Run's loop; `history` says whether the iteration is
\* recorded in trail and spAt.
Iterate(history) ==
    /\ CanIterate(Progress(vm, runErr, pc))
    /\ LET st == Stepped(Progress(vm, runErr, pc))
       IN  vm' = st.vm /\ runErr' = st.runErr /\ pc' = st.pc
    /\ IF history
       THEN /\ trail' = LastTwo(Append(trail, [op |-> NextOp(vm),
                                               at |-> NextOffset(vm),
                                               vm |-> vm]))
            /\ spAt' = (NextOffset(vm) :> vm.sp) @@ spAt
            /\ stored' = IF NextOp(vm) = OpSetGlobal /\ vm.sp >= 1
                         THEN (NextOperand(vm) :> StackTop(vm)) @@ stored
                         ELSE stored
       ELSE UNCHANGED <<trail, spAt, stored>>
    /\ UNCHANGED <<compiler, compileErrs, program, call>>

RunIteration == Iterate(TRUE)

RunIterationBare == Iterate(FALSE)

\* Stride iterations of Run's loop in one step, from an offset that is a
\* multiple of Stride: the loop is sequential and nothing interleaves with
\* it.
RunAhead ==
    /\ CanIterate(Progress(vm, runErr, pc))
    /\ NextOffset(vm) % Stride = 0
    /\ LET st == SteppedTimes(Progress(vm, runErr, pc), Stride)
       IN  vm' = st.vm /\ runErr' = st.runErr /\ pc' = st.pc
    /\ UNCHANGED <<compiler, compileErrs, program, call, trail, spAt, stored>>

\* The loop condition fails: Run returns nil.
RunReturns ==
    /\ pc = "run"
    /\ vm.framesIndex >= 1
    /\ ~RunCondition(vm)
    /\ pc' = "returned"
    /\ runErr' = "nil"
    /\ UNCHANGED <<compiler, compileErrs, program, vm, call, trail, spAt, stored>>

\* The loop condition is evaluated with no frame left.
RunNoFrame ==
    /\ pc = "run"
    /\ vm.framesIndex < 1
    /\ pc' = "panicked"
    /\ runErr' = "index out of range [-1]"
    /\ UNCHANGED <<compiler, compileErrs, program, vm, call, trail, spAt, stored>>

Next == DoCompile \/ StartVM \/ RunIteration \/ RunReturns

Spec == Init /\ [][Next]_vars


(***************************************************************************)
(* Properties of the compile-and-run pipeline (specification Spec).        *)
(***************************************************************************)
\* Equality of two language values: variant and payload.
SameValue(a, b) ==
    /\ a.Type = b.Type
    /\ a.Type \in {"INTEGER", "BOOLEAN", "NULL"}
    /\ a.Type = "INTEGER" => a.Value = b.Value
    /\ a.Type = "BOOLEAN" => a.Bool = b.Bool

Last(s) == s[Len(s)]

Compiled == pc # "start" /\ \A i \in 1..Len(compileErrs) : compileErrs[i] = "nil"
RanWithoutError == Compiled /\ pc = "returned" /\ runErr = "nil"
LastStatement == Last(program[1].Statements)

\* C1: after a program of expression statements has compiled and run
\* without error, sp is 0 and LastPoppedStackElem() is the value of the
\* program's last expression statement.
C1_LastPoppedIsLastStatement ==
    (RanWithoutError /\ program[1].Statements # <<>>) =>
        /\ vm.sp = 0
        /\ SameValue(LastPoppedStackElem(vm), Eval(LastStatement, <<>>))

C1_Witness ==
    /\ RanWithoutError
    /\ Len(program[1].Statements) = 2
    /\ LastStatement.Expression.kind = "IfExpression"
    /\ LastPoppedStackElem(vm).Type = "INTEGER"

\* C2: every if-expression leaves exactly one value on the stack (when the
\* instruction after it is about to be fetched, sp is one more than it was
\* when the first instruction of its condition was fetched), and no OpPop is
\* fetched with the stack empty.
C2_IfLeavesOneValue ==
    (Compiled /\ pc = "run") =>
        /\ \A span \in compiler.ifSpans :
              (NextOffset(vm) = span[2] /\ span[1] \in DOMAIN spAt) =>
                  vm.sp = spAt[span[1]] + 1
        /\ (RunCondition(vm) /\ NextOp(vm) = OpPop) => vm.sp > 0

\* The instruction boundaries of a buffer, its end included.
RECURSIVE Boundaries(_, _)
Boundaries(ins, i) ==
    IF i >= Len(ins) THEN {i}
    ELSE IF ins[i + 1] \notin DOMAIN definitions THEN {i}
    ELSE {i} \cup Boundaries(ins,
                 i + 1 + SumSeq(definitions[ins[i + 1]].OperandWidths))

JumpOperandsOK(ins) ==
    \A i \in Boundaries(ins, 0) :
        (i < Len(ins) /\ ins[i + 1] \in {OpJump, OpJumpNotTruthy}) =>
            LET target == ReadUint16(SliceFrom(ins, i + 1))
            IN  target \in Boundaries(ins, 0) /\ target # 9999

TakenBranch(ie) ==
    IF evalIsTruthy(Eval(ie.Condition, <<>>)) THEN ie.Consequence
    ELSE ie.Alternative

\* C9: an if-expression yields the value of the last expression statement
\* of its consequence when the condition is truthy, of its alternative when
\* it is not and there is one, and Null when it is not and there is none.
C9_IfValue ==
    (/\ RanWithoutError
     /\ program[1].Statements # <<>>
     /\ LastStatement.Expression.kind = "IfExpression"
     /\ TakenBranch(LastStatement.Expression).kind = "nil"
        \/ TakenBranch(LastStatement.Expression).Statements # <<>>) =>
        LET ie == LastStatement.Expression
            branch == TakenBranch(ie)
        IN  IF branch.kind = "nil"
            THEN SameObject(LastPoppedStackElem(vm), Null)
            ELSE SameValue(LastPoppedStackElem(vm),
                           Eval(Last(branch.Statements), <<>>))

C9_Witness ==
    /\ RanWithoutError
    /\ program[1].Statements # <<>>
    /\ LastStatement.Expression.kind = "IfExpression"
    /\ LastStatement.Expression.Alternative.kind # "nil"
    /\ ~evalIsTruthy(Eval(LastStatement.Expression.Condition, <<>>))
    /\ Len(LastStatement.Expression.Alternative.Statements) = MaxStmts
    /\ LastPoppedStackElem(vm).Type = "BOOLEAN"


(***************************************************************************)
(* Make and ReadOperands (specification SpecCode).                         *)
(***************************************************************************)
OperandValues ==
    {0, 1, 2, 255, 256, 257, 9999, 65534, 65535, 65536, 65537, 70000, -1}

\* instruction := code.Make(op, operands...)
DoMake ==
    /\ pc = "start"
    /\ \E op \in DOMAIN definitions :
         \E operands \in [1..Len(definitions[op].OperandWidths)
                             -> OperandValues] :
            call' = [fn |-> "Make", op |-> op, operands |-> operands,
                     instruction |-> Make(op, operands)]
    /\ pc' = "made"
    /\ UNCHANGED <<compiler, compileErrs, program, vm, runErr, trail, spAt, stored>>

\* def, _ := code.Lookup(op); code.ReadOperands(def, instruction[1:])
DoReadOperands ==
    /\ pc = "made"
    /\ call' = [fn |-> "ReadOperands", op |-> call.op,
                operands |-> call.operands,
                read |-> ReadOperands(Lookup(call.op).def,
                                      SliceFrom(call.instruction, 1))]
    /\ pc' = "read"
    /\ UNCHANGED <<compiler, compileErrs, program, vm, runErr, trail, spAt, stored>>

\* Buffers with a JumpNotTruthy and a Jump, and the offsets of the two.
PatchBuffers ==
    {Make(OpTrue, <<>>) \o Make(OpJumpNotTruthy, <<9999>>)
        \o Make(OpConstant, <<1>>) \o Make(OpJump, <<9999>>)
        \o Make(OpNull, <<>>) \o Make(OpPop, <<>>),
     Make(OpJumpNotTruthy, <<0>>) \o Make(OpJump, <<0>>)}

JumpOffsets(ins) ==
    IF ins[1] = OpTrue THEN {1, 7} ELSE {0, 3}

\* c.changeOperand(opPos, operand)
DoChangeOperand ==
    /\ pc = "start"
    /\ \E ins \in PatchBuffers :
         \E opPos \in JumpOffsets(ins) :
            \E operand \in OperandValues :
               LET c == [New EXCEPT !.instructions = ins]
               IN  call' = [fn |-> "changeOperand", before |-> ins,
                            opPos |-> opPos, operand |-> operand,
                            after |-> changeOperand(c, opPos, operand)
                                          .instructions]
    /\ pc' = "patched"
    /\ UNCHANGED <<compiler, compileErrs, program, vm, runErr, trail, spAt, stored>>

NextCode == DoMake \/ DoReadOperands \/ DoChangeOperand

SpecCode == Init /\ [][NextCode]_vars

RoundTrip ==
    /\ call.read.operands = call.operands
    /\ call.read.offset = SumSeq(definitions[call.op].OperandWidths)

\* C5 as stated: for every defined opcode and every operand list with one
\* integer per operand, ReadOperands of Make's bytes after the opcode
\* returns the operands and the sum of the operand widths.
C5_RoundTripAnyOperand == (pc = "read") => RoundTrip

\* C5 as amended: the same for operands in 0..65535, the values two bytes
\* hold.
C5_RoundTripUint16 ==
    (pc = "read" /\ \A i \in 1..Len(call.operands) :
                        call.operands[i] \in 0..65535) => RoundTrip

C5_Witness ==
    /\ pc = "read"
    /\ call.op = OpJumpNotTruthy
    /\ call.operands = <<65534>>
    /\ call.read.operands = <<65534>>
    /\ call.read.offset = 2

(***************************************************************************)
(* Several Compile calls on one Compiler (specification SpecAppend).       *)
(***************************************************************************)
AppendStmts ==
    {ES(Lit(1)), ES(InfixExpression("+", Lit(1), Lit(2))), ES(InnerIf),
     ES(InfixExpression("&", Lit(1), Lit(2))),
     ES(PrefixExpression("~", Lit(0)))}

AppendPrograms ==
    {Program(<<a>>) : a \in AppendStmts}
    \cup {Program(<<a, b>>) : a \in AppendStmts, b \in AppendStmts}

\* err := c.Compile(program), on the Compiler of the calls before.
CompileOnSame ==
    /\ pc \in {"start", "compiled"}
    /\ Len(program) < MaxCompiles
    /\ \E node \in AppendPrograms : CompileNode(node)

SpecAppend == Init /\ [][CompileOnSame]_vars

\* The statements of the programs, one after the other.
RECURSIVE Joined(_)
Joined(programs) ==
    IF programs = <<>> THEN <<>>
    ELSE Head(programs).Statements \o Joined(Tail(programs))

IsPrefix(s, t) == Len(s) <= Len(t) /\ SubSeq(t, 1, Len(s)) = s

SameAsOneCompile ==
    compiler.constants = Compile(New, Program(Joined(program))).c.constants

AppendOnly == pc = "compiled" => IsPrefix(call.constants, compiler.constants)

RECURSIVE Flatten(_)
Flatten(ss) == IF ss = <<>> THEN <<>> ELSE Head(ss) \o Flatten(Tail(ss))

Op0(op) == Make(op, <<>>)
Op1(op, operand) == Make(op, <<operand>>)
Repeat(ins, n) == [i \in 1..(n * Len(ins)) |-> ins[((i - 1) % Len(ins)) + 1]]

ByteCode(ins, constants) == [Instructions |-> ins, Constants |-> constants]

\* A value under one slot of the stack, n, and Minus twice.
MinusTwice(n) ==
    ByteCode(Flatten(<<Op0(OpTrue), Op1(OpConstant, 0), Op0(OpMinus),
                       Op0(OpMinus), Op0(OpPop), Op0(OpPop)>>),
             <<Integer(n)>>)

MinusScenarios == [i \in 1..(2 ^ IntBits) |-> MinusTwice(MinInt + i - 1)]

\* The stack filled up to `depth`, then one more instruction.
FillThen(depth, ins) ==
    ByteCode(Repeat(Op0(OpTrue), depth) \o ins \o Op0(OpPop), <<Integer(1)>>)

\* let f = fn() { f() }; f()  -- a function that calls itself for ever.
CallsItself ==
    ByteCode(Op1(OpConstant, 0) \o Op1(OpSetGlobal, 0) \o Op1(OpGetGlobal, 0)
             \o <<OpCall>> \o Op0(OpPop),
             <<CompiledFunction(2001, Op1(OpGetGlobal, 0) \o <<OpCall>>
                                      \o <<OpReturnValue>>)>>)

Pushers ==
    <<Op0(OpTrue), Op0(OpFalse), Op0(OpNull), Op1(OpConstant, 0),
      Op1(OpGetGlobal, 0), Op1(OpArray, 0), Op1(OpHash, 0)>>

FullStackScenarios ==
    [i \in 1..Len(Pushers) |-> FillThen(StackSize, Pushers[i])]
    \o <<FillThen(StackSize - 1, Op0(OpTrue)),
         FillThen(StackSize, Op0(OpAdd)),
         FillThen(StackSize, Op0(OpBang)),
         FillThen(StackSize, Op1(OpArray, 2)),
         CallsItself>>

StringA == String(1001, <<97>>)
StringB == String(1002, <<98>>)
StringA2 == String(1003, <<97>>)
StringEmpty == String(1004, <<>>)
StringAB == String(1005, <<97, 98>>)

\* The instruction that loads vals[i]: a Boolean by OpTrue or OpFalse, any
\* other value as the constant it is in the pool of the others.
Load(vals, i) ==
    IF vals[i].Type = "BOOLEAN"
    THEN Op0(IF vals[i].Bool THEN OpTrue ELSE OpFalse)
    ELSE Op1(OpConstant,
             Cardinality({j \in 1..i : vals[j].Type # "BOOLEAN"}) - 1)

Pool(vals) == SelectSeq(vals, LAMBDA v : v.Type # "BOOLEAN")

\* [elements...][index], then two more instructions.
ArrayIndex(elements, index) ==
    LET vals == elements \o <<index>>
    IN  ByteCode(Op0(OpTrue)
                 \o Flatten([i \in 1..Len(elements) |-> Load(vals, i)])
                 \o Op1(OpArray, Len(elements))
                 \o Load(vals, Len(vals))
                 \o Op0(OpIndex) \o Op0(OpFalse) \o Op0(OpPop) \o Op0(OpPop),
                 Pool(vals))

\* {k1: v1, ...}[index], then two more instructions; kvs is k1, v1, ...
HashIndex(kvs, index) ==
    LET vals == kvs \o <<index>>
    IN  ByteCode(Op0(OpTrue)
                 \o Flatten([i \in 1..Len(kvs) |-> Load(vals, i)])
                 \o Op1(OpHash, Len(kvs))
                 \o Load(vals, Len(vals))
                 \o Op0(OpIndex) \o Op0(OpFalse) \o Op0(OpPop) \o Op0(OpPop),
                 Pool(vals))

ArrayIndexes == <<-1, 0, 1, 2, 3, MinInt, MaxInt>>
ArrayScenarios ==
    [i \in 1..Len(ArrayIndexes) |->
        ArrayIndex(<<Integer(5), True>>, Integer(ArrayIndexes[i]))]
    \o [i \in 1..Len(ArrayIndexes) |->
        ArrayIndex(<<>>, Integer(ArrayIndexes[i]))]
    \o <<ArrayIndex(<<Integer(5)>>, True), ArrayIndex(<<Integer(5)>>, StringA)>>

HashKeys ==
    <<Integer(0), Integer(1), Integer(2), Integer(-1), True, False,
      StringA, StringA2, StringB, StringEmpty, StringAB>>
HashTables ==
    <<<<>>,
      <<Integer(1), Integer(5), StringA, Integer(6)>>,
      <<True, Integer(5), Integer(0), StringB>>,
      <<StringAB, True, False, Integer(1)>>>>
HashScenarios ==
    Flatten([t \in 1..Len(HashTables) |->
                [k \in 1..Len(HashKeys) |->
                    HashIndex(HashTables[t], HashKeys[k])]])
    \o <<HashIndex(<<>>, Null),
         ByteCode(Op0(OpTrue) \o Op0(OpTrue) \o <<OpReturnValue>>, <<>>)>>

\* Hash literals in which a key comes twice, each indexed by that key.
DuplicateKeyTables ==
    <<<<Integer(1), Integer(5), Integer(1), Integer(6)>>,
      <<StringA, True, StringB, Integer(0), StringA2, False>>,
      <<True, Integer(1), False, Integer(2), True, Integer(0)>>>>
DuplicateKeyScenarios ==
    [t \in 1..Len(DuplicateKeyTables) |->
        HashIndex(DuplicateKeyTables[t], DuplicateKeyTables[t][1])]

\* A byte that is no opcode between two instructions.
UndefinedBytes == <<23, 100, 255>>
UndefinedScenarios ==
    [i \in 1..Len(UndefinedBytes) |->
        ByteCode(Op0(OpTrue) \o <<UndefinedBytes[i]>> \o Op0(OpFalse)
                 \o Op0(OpPop) \o Op0(OpPop), <<>>)]

\* A handler fails between two stores to globals.
FailsThenStores ==
    ByteCode(Op1(OpConstant, 0) \o Op1(OpSetGlobal, 0)
             \o Op0(OpTrue) \o Op0(OpTrue) \o Op0(OpIndex)
             \o Op1(OpConstant, 0) \o Op1(OpSetGlobal, 1),
             <<Integer(7)>>)

\* One value of every variant on the stack: the constants of OperandPool, the
\* two Booleans, Null, an empty Array and an empty Hash.
OperandPool ==
    <<Integer(7), Integer(2), Integer(0), Integer(MinInt), Integer(-1),
      StringA, StringB>>
Loaders ==
    [i \in 1..Len(OperandPool) |-> Op1(OpConstant, i - 1)]
        \o <<Op0(OpTrue), Op0(OpFalse), Op0(OpNull),
             Op1(OpArray, 0), Op1(OpHash, 0)>>

ArithmeticOps == <<OpAdd, OpSub, OpMul, OpDiv>>

\* left, right, one arithmetic instruction, then three more instructions.
Arithmetic(l, r, op) ==
    ByteCode(Op0(OpTrue) \o Loaders[l] \o Loaders[r] \o Op0(op)
             \o Op0(OpFalse) \o Op0(OpPop) \o Op0(OpPop),
             OperandPool)
ArithmeticScenarios ==
    [n \in 1..(Len(Loaders) * Len(Loaders) * Len(ArithmeticOps)) |->
        Arithmetic(((n - 1) % Len(Loaders)) + 1,
                   (((n - 1) \div Len(Loaders)) % Len(Loaders)) + 1,
                   ArithmeticOps[((n - 1) \div (Len(Loaders) * Len(Loaders))) + 1])]

\* !operand, then three more instructions.
BangScenarios ==
    [l \in 1..Len(Loaders) |->
        ByteCode(Op0(OpTrue) \o Loaders[l] \o Op0(OpBang)
                 \o Op0(OpFalse) \o Op0(OpPop) \o Op0(OpPop),
                 OperandPool)]

\* condition; JumpNotTruthy t; True; Jump e; t: False; e: Pop
JumpScenarios ==
    [l \in 1..Len(Loaders) |->
        LET at == Len(Loaders[l])
        IN  ByteCode(Loaders[l] \o Op1(OpJumpNotTruthy, at + 7)
                     \o Op0(OpTrue) \o Op1(OpJump, at + 8)
                     \o Op0(OpFalse) \o Op0(OpPop),
                     OperandPool)]

\* Code that leaves one value: a loaded one, or the result of an
\* instruction (over OperandPool: 7 is constant 0, 2 is 1, 0 is 2).
Producers ==
    Loaders
        \o <<Loaders[1] \o Loaders[2] \o Op0(OpGreaterThan),
             Loaders[2] \o Loaders[1] \o Op0(OpGreaterThan),
             Loaders[1] \o Loaders[1] \o Op0(OpEqual),
             Loaders[1] \o Loaders[2] \o Op0(OpSub),
             Loaders[2] \o Op0(OpMinus),
             Op0(OpTrue) \o Op0(OpBang),
             Op0(OpNull) \o Op0(OpBang),
             Op1(OpHash, 0) \o Loaders[1] \o Op0(OpIndex),
             Op1(OpArray, 0) \o Loaders[3] \o Op0(OpIndex)>>

\* Up to three distinct values, then Array n over a stack that holds one
\* value more, then one more instruction.
BuildArrayScenarios ==
    [n \in 1..4 |->
        ByteCode(Op0(OpFalse) \o Flatten(SubSeq(Loaders, 6, 4 + n))
                 \o Op1(OpArray, n - 1) \o Op0(OpPop),
                 OperandPool)]

\* fn() { 5 } and fn() { five() }, as constants 2 and 0 of CallPool.
FnFive == CompiledFunction(2002, Op1(OpConstant, 1) \o <<OpReturnValue>>)
FnOuter ==
    CompiledFunction(2003, Op1(OpConstant, 2) \o <<OpCall>>
                           \o <<OpReturnValue>>)
CallPool == <<FnOuter, Integer(5), FnFive>>

\* One value, a callee, Call, then two more instructions; the callee is a
\* function, or a value of every other variant.
CallScenarios ==
    <<ByteCode(Op0(OpTrue) \o Op1(OpConstant, 2) \o <<OpCall>>
               \o Op0(OpPop) \o Op0(OpPop), CallPool),
      ByteCode(Op0(OpTrue) \o Op1(OpConstant, 0) \o <<OpCall>>
               \o Op0(OpPop) \o Op0(OpPop), CallPool)>>
    \o [l \in 1..Len(Loaders) |->
          ByteCode(Op0(OpTrue) \o Loaders[l] \o <<OpCall>>
                   \o Op0(OpPop) \o Op0(OpPop), OperandPool)]

\* Callees whose instructions do not end with ReturnValue, and one that is
\* called twice in a row.
FnNoReturn == CompiledFunction(2004, Op0(OpTrue))
FnEmpty == CompiledFunction(2005, <<>>)
FnCallsNoReturn ==
    CompiledFunction(2006, Op1(OpConstant, 0) \o <<OpCall>>
                           \o <<OpReturnValue>>)
FramePool == <<FnNoReturn, FnEmpty, FnCallsNoReturn, FnFive, Integer(5)>>

\* A call of each callee of FramePool followed by two instructions of the
\* caller, two calls one after the other, and ReturnValue in the main
\* frame with zero to three values on the stack.
FrameScenarios ==
    [n \in 1..4 |->
        ByteCode(Op0(OpTrue) \o Op1(OpConstant, n - 1) \o <<OpCall>>
                 \o Op0(OpPop) \o Op0(OpPop), FramePool)]
    \o <<ByteCode(Op1(OpConstant, 3) \o <<OpCall>> \o Op0(OpPop)
                  \o Op1(OpConstant, 3) \o <<OpCall>> \o Op0(OpPop),
                  FramePool)>>
    \o [n \in 1..4 |->
          ByteCode(Repeat(Op0(OpTrue), n - 1) \o <<OpReturnValue>>
                   \o Op0(OpPop), FramePool)]

EqualityOps == <<OpEqual, OpNotEqual>>

\* left, right, Equal or NotEqual, then three more instructions.
Equality(l, r, op) ==
    ByteCode(Op0(OpTrue) \o Producers[l] \o Producers[r] \o Op0(op)
             \o Op0(OpFalse) \o Op0(OpPop) \o Op0(OpPop),
             OperandPool)
EqualityScenarios ==
    [n \in 1..(Len(Producers) * Len(Producers) * Len(EqualityOps)) |->
        Equality(((n - 1) % Len(Producers)) + 1,
                 (((n - 1) \div Len(Producers)) % Len(Producers)) + 1,
                 EqualityOps[((n - 1) \div (Len(Producers) * Len(Producers))) + 1])]

Scenarios ==
    MinusScenarios \o ArrayScenarios \o HashScenarios \o UndefinedScenarios
        \o <<FailsThenStores>> \o ArithmeticScenarios \o BangScenarios
        \o JumpScenarios \o EqualityScenarios \o BuildArrayScenarios
        \o CallScenarios \o FrameScenarios \o DuplicateKeyScenarios

\* machine := vm.New(bytecode)
LoadBytecode ==
    /\ pc = "start"
    /\ \E i \in 1..Len(Scenarios) :
          /\ vm' = NewVM(Scenarios[i])
          /\ call' = [fn |-> "New", scenario |-> i]
    /\ pc' = "run"
    /\ UNCHANGED <<compiler, compileErrs, program, runErr, trail, spAt, stored>>

NextVM == LoadBytecode \/ RunIteration \/ RunReturns \/ RunNoFrame

SpecVM == Init /\ [][NextVM]_vars


(***************************************************************************)
(* Properties of Run (specification SpecVM).                               *)
(***************************************************************************)
\* The last iteration of Run's loop: the VM it started from, the opcode it
\* fetched and the offset it fetched it at.
Before == Last(trail).vm
Fetched == Last(trail).op
FetchedAt == Last(trail).at

\* Equality of two hashable language values: variant and payload.
SameKey(a, b) ==
    /\ a.Type = b.Type
    /\ CASE a.Type = "INTEGER" -> a.Value = b.Value
         [] a.Type = "BOOLEAN" -> a.Bool = b.Bool
         [] a.Type = "STRING" -> a.Str = b.Str
         [] OTHER -> FALSE

Contains(hashObj, key) ==
    \E k \in DOMAIN hashObj.Pairs : SameKey(hashObj.Pairs[k].Key, key)

\* The operands of an Index that misses.
IndexMisses(container, index) ==
    \/ /\ container.Type = "ARRAY"
       /\ index.Type = "INTEGER"
       /\ index.Value < 0 \/ index.Value >= Len(container.Elements)
    \/ /\ container.Type = "HASH"
       /\ Hashable(index)
       /\ ~Contains(container, index)

IndexMissed ==
    /\ trail # <<>>
    /\ Fetched = OpIndex
    /\ Before.sp >= 2
    /\ IndexMisses(StackAt(Before, Before.sp - 2),
                   StackAt(Before, Before.sp - 1))

\* C7: an Index that misses (an Array with an Integer index that is negative
\* or not below its length, a Hash with a hashable key it does not contain)
\* pushes the Null singleton in place of its two operands, returns no error,
\* and Run goes on with the next instruction.
C7_IndexMissPushesNull ==
    IndexMissed =>
        /\ pc = "run"
        /\ runErr = "nil"
        /\ vm.sp = Before.sp - 1
        /\ SameObject(StackTop(vm), Null)
        /\ NextOffset(vm) = FetchedAt + 1
        /\ RunCondition(vm)

C7_Witness ==
    /\ IndexMissed
    /\ StackAt(Before, Before.sp - 2).Type = "HASH"
    /\ DOMAIN StackAt(Before, Before.sp - 2).Pairs # {}
    /\ StackAt(Before, Before.sp - 1).Type = "STRING"
    /\ pc = "run"
    /\ SameObject(StackTop(vm), Null)

MinusTwiceDone ==
    /\ Len(trail) = 2
    /\ trail[1].op = OpMinus
    /\ trail[2].op = OpMinus
    /\ trail[2].at = trail[1].at + 1
    /\ trail[1].vm.sp >= 1
    /\ StackTop(trail[1].vm).Type = "INTEGER"

\* C8: Minus twice on a stack whose top is Integer n, for every n of the
\* Integer width, the minimum included, leaves an Integer n on top and the
\* rest of the stack and sp as they were.
C8_MinusTwiceIsIdentity ==
    MinusTwiceDone =>
        /\ pc = "run"
        /\ runErr = "nil"
        /\ vm.sp = trail[1].vm.sp
        /\ StackTop(vm).Type = "INTEGER"
        /\ StackTop(vm).Value = StackTop(trail[1].vm).Value
        /\ \A i \in 0..(vm.sp - 2) : StackAt(vm, i) = StackAt(trail[1].vm, i)

C8_Witness ==
    /\ MinusTwiceDone
    /\ StackTop(trail[1].vm).Value = MinInt
    /\ StackTop(vm).Value = MinInt
    /\ vm.sp = 2

(***************************************************************************)
(* Run on a full stack (specification SpecStack).                          *)
(***************************************************************************)
\* machine := vm.New(bytecode), the bytecode filling the stack.
LoadFullStack ==
    /\ pc = "start"
    /\ \E i \in 1..Len(FullStackScenarios) :
          /\ vm' = NewVM(FullStackScenarios[i])
          /\ call' = [fn |-> "New", scenario |-> i]
    /\ pc' = "run"
    /\ UNCHANGED <<compiler, compileErrs, program, runErr, trail, spAt, stored>>

NextStack == LoadFullStack \/ RunIterationBare \/ RunAhead \/ RunReturns

SpecStack == Init /\ [][NextStack]_vars

\* The next iteration of Run's loop pushes without popping first.
PushNext ==
    /\ pc = "run"
    /\ vm.framesIndex >= 1
    /\ RunCondition(vm)
    /\ \/ NextOp(vm) \in {OpConstant, OpTrue, OpFalse, OpNull, OpGetGlobal}
       \/ /\ NextOp(vm) \in {OpArray, OpHash}
          /\ ReadUint16(SliceFrom(currentFrame(vm).fn.Instructions,
                                  NextOffset(vm) + 1)) = 0

OverflowIsReturned ==
    (PushNext /\ vm.sp = StackSize) =>
        /\ pc' = "returned"
        /\ runErr' = "stack overflow, oh no"
        /\ vm'.sp = vm.sp
        /\ vm'.stack = vm.stack

\* C10: a push attempted at sp = StackSize makes Run return the stack
\* overflow error and leaves sp and every stack slot as they were; sp is
\* between 0 and StackSize in every state.
C10_StackOverflowIsAnError ==
    /\ [](0 <= vm.sp /\ vm.sp <= StackSize)
    /\ [][OverflowIsReturned]_vars

C10_Witness ==
    /\ pc = "returned"
    /\ runErr = "stack overflow, oh no"
    /\ vm.sp = StackSize
    /\ Len(vm.stack) = StackSize
    /\ currentFrame(vm).fn.Instructions[StackSize + 1] = OpConstant
    /\ currentFrame(vm).ip = StackSize + 2

\* The next iteration of Run's loop is a Call of a compiled function.
CallNext ==
    /\ CanIterate(Progress(vm, runErr, pc))
    /\ NextOp(vm) = OpCall
    /\ vm.sp >= 1
    /\ StackTop(vm).Type = "COMPILED_FUNCTION_OBJ"

FrameOverflowIsReturned ==
    (CallNext /\ vm.framesIndex = MaxFrames) =>
        /\ pc' = "returned"
        /\ runErr' # "nil"

\* C11: a Call with MaxFrames frames on the frame stack makes Run return a
\* frame overflow error, and the frame stack never holds more than
\* MaxFrames frames.
C11_FrameOverflowIsAnError ==
    /\ [](Len(vm.frames) <= MaxFrames /\ vm.framesIndex <= MaxFrames)
    /\ [][FrameOverflowIsReturned]_vars

\* The last iteration fetched a byte that is no opcode.
UndefinedFetched ==
    /\ trail # <<>>
    /\ Fetched \notin (DOMAIN definitions \cup {OpCall, OpReturnValue})

\* C12: when the fetch reads a byte that is no opcode, Run stops and
\* returns an error; it does not go on with the bytes after it.
C12_UndefinedOpcodeIsAnError ==
    UndefinedFetched => (pc = "returned" /\ runErr # "nil")

\* The handler of the last iteration returned an error.
HandlerFailed == trail # <<>> /\ RunStep(Before).out = "error"

\* Bytes follow the instruction the last iteration fetched.
MoreToRun ==
    FetchedAt + 1 < Len(currentFrame(Before).fn.Instructions)

AbortedAtOnce ==
    HandlerFailed =>
        /\ pc = "returned"
        /\ runErr = RunStep(Before).err
        /\ runErr # "nil"
        /\ vm.globals = Before.globals

NothingAfterError ==
    (pc = "returned" /\ runErr # "nil") => UNCHANGED <<vm, runErr, pc, trail>>

\* C13: the first handler that returns an error ends Run: Run returns that
\* error in the same iteration, no later instruction is fetched or executed,
\* and globals stay as they were at the failure.
C13_FirstErrorAbortsRun == []AbortedAtOnce /\ [][NothingAfterError]_vars

C13_Witness ==
    /\ HandlerFailed
    /\ MoreToRun
    /\ pc = "returned"
    /\ 0 \in DOMAIN vm.globals

\* The operands of the instruction the last iteration fetched: the right
\* one is on top of the stack, the left one under it.
RightOperand == StackAt(Before, Before.sp - 1)
LeftOperand == StackAt(Before, Before.sp - 2)

BinaryFetched(ops) ==
    /\ trail # <<>>
    /\ Fetched \in ops
    /\ Before.sp >= 2
    /\ LeftOperand.Type # "nil"
    /\ RightOperand.Type # "nil"

DividedByZero ==
    /\ BinaryFetched({OpDiv})
    /\ LeftOperand.Type = "INTEGER"
    /\ RightOperand.Type = "INTEGER"
    /\ RightOperand.Value = 0

Failed == pc \in {"returned", "panicked"} /\ runErr # "nil"

DivisionByZeroStops ==
    DividedByZero => (Failed /\ vm.sp = Before.sp - 2)

NothingAfterFailure == Failed => UNCHANGED <<vm, runErr, pc, trail>>

\* C15: Div on two Integers with right operand 0 ends Run in that iteration
\* with a failure; the two operands are popped, no result is pushed, and no
\* later instruction is executed.
C15_DivisionByZeroIsFatal ==
    []DivisionByZeroStops /\ [][NothingAfterFailure]_vars

C15_Witness == DividedByZero /\ Failed /\ MoreToRun /\ LeftOperand.Value = 7

Abs(x) == IF x < 0 THEN -x ELSE x

\* The quotient of a by b rounded toward zero, in the integers.
Quotient(a, b) ==
    CHOOSE q \in (MinInt - 1)..(MaxInt + 1) :
        /\ Abs(q) * Abs(b) <= Abs(a)
        /\ Abs(a) < (Abs(q) + 1) * Abs(b)
        /\ (q # 0) => ((q > 0) <=> ((a > 0) = (b > 0)))

\* The integer an arithmetic instruction stands for, before wraparound.
Exact(op, a, b) ==
    CASE op = OpAdd -> a + b
      [] op = OpSub -> a - b
      [] op = OpMul -> a * b
      [] op = OpDiv -> Quotient(a, b)

ArithmeticFetched ==
    BinaryFetched({OpAdd, OpSub, OpMul, OpDiv}) /\ ~DividedByZero

BothIntegers == LeftOperand.Type = "INTEGER" /\ RightOperand.Type = "INTEGER"
BothStrings == LeftOperand.Type = "STRING" /\ RightOperand.Type = "STRING"

PushedOne == pc = "run" /\ runErr = "nil" /\ vm.sp = Before.sp - 1

\* C17: Add, Sub, Mul and Div take the right operand from the top of the
\* stack and the left one from under it; two Integers give the Integer of
\* the operation, two Strings under Add give the left bytes followed by the
\* right bytes, and every other pair of variants makes Run return an error
\* with both operands popped and nothing pushed.
C17_ArithmeticOperands ==
    ArithmeticFetched =>
        CASE BothIntegers ->
                /\ PushedOne
                /\ StackTop(vm).Type = "INTEGER"
                /\ StackTop(vm).Value =
                      Wrap(Exact(Fetched, LeftOperand.Value, RightOperand.Value))
          [] BothStrings /\ Fetched = OpAdd ->
                /\ PushedOne
                /\ StackTop(vm).Type = "STRING"
                /\ StackTop(vm).Str = LeftOperand.Str \o RightOperand.Str
          [] OTHER ->
                /\ pc = "returned"
                /\ runErr # "nil"
                /\ vm.sp = Before.sp - 2

C17_Witness ==
    /\ ArithmeticFetched
    /\ Fetched = OpSub
    /\ BothStrings
    /\ LeftOperand.Str # RightOperand.Str
    /\ pc = "returned"

\* The value on top of the stack before the last iteration.
Operand == StackTop(Before)

UnaryFetched(op) ==
    /\ trail # <<>>
    /\ Fetched = op
    /\ Before.sp >= 1
    /\ Operand.Type # "nil"

FalseOrNull(v) == (v.Type = "BOOLEAN" /\ ~v.Bool) \/ v.Type = "NULL"

Negation(v) == IF FalseOrNull(v) THEN True ELSE False

\* C19: Bang replaces the value on top of the stack by True when that value
\* is False or Null and by False when it is anything else; the evaluator's
\* `!` gives the same Boolean for the same operand.
C19_BangNegatesTruthiness ==
    UnaryFetched(OpBang) =>
        /\ pc = "run"
        /\ runErr = "nil"
        /\ vm.sp = Before.sp
        /\ SameValue(StackTop(vm), Negation(Operand))
        /\ SameValue(evalBangOperatorExpression(Operand), Negation(Operand))

C19_Witness ==
    /\ UnaryFetched(OpBang)
    /\ Operand.Type = "INTEGER"
    /\ Operand.Value = 0
    /\ SameValue(StackTop(vm), False)

\* The operand of the jump instruction the last iteration fetched.
Target == NextOperand(Before)

JumpNotTruthyJumps ==
    UnaryFetched(OpJumpNotTruthy) =>
        /\ pc = "run"
        /\ vm.sp = Before.sp - 1
        /\ NextOffset(vm) = IF FalseOrNull(Operand) THEN Target
                                                    ELSE FetchedAt + 3

JumpJumps ==
    (trail # <<>> /\ Fetched = OpJump) =>
        /\ pc = "run"
        /\ vm.sp = Before.sp
        /\ NextOffset(vm) = Target

\* C20: JumpNotTruthy pops one value; the next fetch is at its target when
\* the value is Null or false and right after its three bytes for every
\* other value. Jump pops nothing and the next fetch is at its target.
C20_ConditionalJump == JumpNotTruthyJumps /\ JumpJumps

C20_Witness ==
    /\ UnaryFetched(OpJumpNotTruthy)
    /\ Operand.Type = "INTEGER"
    /\ Operand.Value = 0
    /\ NextOffset(vm) = FetchedAt + 3
    /\ Target # FetchedAt + 3

(***************************************************************************)
(* One expression compiled and run, and evaluated by Eval (specification   *)
(* SpecExpr).                                                              *)
(***************************************************************************)
Operands ==
    Lits
    \cup {PrefixExpression("-", Lit(n)) : n \in {1, 2, MaxInt}}
    \cup {PrefixExpression("!", BooleanLit(TRUE))}
    \cup {InfixExpression(o, Lit(a), Lit(b)) :
            o \in {"-", "/", "<"}, a \in {1, 2}, b \in {1, 2}}
    \cup {InfixExpression("+", Lit(MaxInt), Lit(1)),
          InfixExpression("==", BooleanLit(TRUE), BooleanLit(FALSE))}

\* Nodes Compile has no case for, and operators it has no opcode for.
Unlowered ==
    {StringLiteral(<<97>>),
     InfixExpression("+", Lit(1), StringLiteral(<<97>>)),
     PrefixExpression("-", StringLiteral(<<97>>)),
     InfixExpression("&", Lit(1), Lit(2)),
     PrefixExpression("~", Lit(1))}

Expressions ==
    Operands
    \cup {InfixExpression(o, a, b) : o \in InfixOps, a \in Operands,
                                     b \in Operands}
    \cup Unlowered

CompileExpression ==
    /\ pc = "start"
    /\ \E e \in Expressions : CompileNode(Program(<<ES(e)>>))

NextExpr == CompileExpression \/ StartVM \/ RunIterationBare \/ RunReturns

SpecExpr == Init /\ [][NextExpr]_vars

\* Run is over, by a return or by a panic.
RunOver == Compiled /\ pc \in {"returned", "panicked"}

Expression == program[1].Statements[1].Expression
Evaluated == Eval(program[1], <<>>)

\* C16: when Eval gives an Integer or a Boolean for an expression made of
\* literals, unary minus and the eight infix operators, Run on the compiled
\* expression returns no error and its last-popped value is that Integer or
\* Boolean.
C16_RunAgreesWithEval ==
    (RunOver /\ Evaluated.Type \in {"INTEGER", "BOOLEAN"}) =>
        /\ pc = "returned"
        /\ runErr = "nil"
        /\ SameValue(LastPoppedStackElem(vm), Evaluated)

C16_Witness ==
    /\ RunOver
    /\ Expression.kind = "InfixExpression"
    /\ Expression.Operator = "/"
    /\ Expression.Left.kind = "InfixExpression"
    /\ Expression.Left.Operator = "-"
    /\ Expression.Right.kind = "InfixExpression"
    /\ Expression.Right.Operator = "-"
    /\ Evaluated.Type = "INTEGER"
    /\ Evaluated.Value = -1
    /\ SameValue(LastPoppedStackElem(vm), Evaluated)

\* a < b over two Integer expressions.
IsLessThan ==
    /\ Compiled
    /\ Expression.kind = "InfixExpression"
    /\ Expression.Operator = "<"
    /\ Eval(Expression.Left, <<>>).Type = "INTEGER"
    /\ Eval(Expression.Right, <<>>).Type = "INTEGER"

\* The code of b, then the code of a, then GreaterThan, then the
\* statement's Pop.
RightThenLeft ==
    Compile(Compile(New, Expression.Right).c, Expression.Left).c.instructions
        \o <<OpGreaterThan, OpPop>>

\* C18: a < b over Integer expressions is compiled to the code of b, the
\* code of a and GreaterThan, and running it leaves True when the value of
\* a is less than the value of b and False otherwise.
C18_LessThanBySwap ==
    IsLessThan =>
        /\ compiler.instructions = RightThenLeft
        /\ RunOver =>
              /\ pc = "returned"
              /\ runErr = "nil"
              /\ SameValue(LastPoppedStackElem(vm),
                           IF Eval(Expression.Left, <<>>).Value
                                 < Eval(Expression.Right, <<>>).Value
                           THEN True ELSE False)

C18_Witness ==
    /\ IsLessThan
    /\ RunOver
    /\ Expression.Left.kind = "InfixExpression"
    /\ Expression.Right.kind = "PrefixExpression"
    /\ SameValue(LastPoppedStackElem(vm), False)

(***************************************************************************)
(* The REPL's loop: every submission runs on a VM made over the one        *)
(* globals slice (specification SpecRepl).                                 *)
(***************************************************************************)
GlobalSlots == {0, 1}

\* What one submission's bytecode does with globals.
Stores(s, k) == Op1(OpConstant, k) \o Op1(OpSetGlobal, s)
Fetches(s) == Op1(OpGetGlobal, s) \o Op0(OpPop)
Copies(s, t) == Op1(OpGetGlobal, s) \o Op1(OpSetGlobal, t)
Fails == Op0(OpTrue) \o Op0(OpTrue) \o Op0(OpIndex)

ReplPool == <<Integer(7), Integer(2), StringA>>

Submissions ==
    {ByteCode(ins, ReplPool) :
        ins \in {Stores(s, k) : s \in GlobalSlots, k \in 0..(Len(ReplPool) - 1)}
                \cup {Fetches(s) : s \in GlobalSlots}
                \cup {Stores(s, 0) \o Fails : s \in GlobalSlots}
                \cup {Copies(0, 1), Fails}}

\* The number of lines the REPL has read.
Submitted == IF call.fn = "StartVMRepl" THEN call.n ELSE 0

\* The REPL is at its prompt: before the first line, or after a Run that
\* returned, with an error or without.
AtPrompt ==
    /\ pc \in {"start", "returned"}
    /\ Submitted < MaxSubmissions

\* A line that compiles: machine := vm.NewWithGlobalsStore(code, globals).
\* The slice `globals` is the one every earlier machine wrote to; objects
\* allocated by the new machine are distinct from the ones already there.
Submit ==
    /\ AtPrompt
    /\ \E code \in Submissions :
          vm' = [NewWithGlobalsStore(code, vm.globals)
                    EXCEPT !.nextId = vm.nextId]
    /\ pc' = "run"
    /\ runErr' = "nil"
    /\ trail' = <<>>
    /\ call' = [fn |-> "StartVMRepl", n |-> Submitted + 1]
    /\ UNCHANGED <<compiler, compileErrs, program, spAt, stored>>

\* A line that does not parse or compile: `continue`, no machine is made.
SubmitRejected ==
    /\ AtPrompt
    /\ call' = [fn |-> "StartVMRepl", n |-> Submitted + 1]
    /\ UNCHANGED <<compiler, compileErrs, program, vm, runErr, pc, trail,
                   spAt, stored>>

NextRepl == Submit \/ SubmitRejected \/ RunIteration \/ RunReturns

SpecRepl == Init /\ [][NextRepl]_vars

\* The same object: the same variant and payload, the same allocation for
\* a heap object.
SameStored(a, b) ==
    /\ a.Type = b.Type
    /\ CASE a.Type = "INTEGER" -> a.Value = b.Value
         [] a.Type = "BOOLEAN" -> a.Bool = b.Bool
         [] a.Type \in {"NULL", "nil"} -> TRUE
         [] OTHER -> a.id = b.id

\* The last iteration fetched GetGlobal on a slot some SetGlobal of the
\* session has stored to.
GlobalFetched ==
    /\ trail # <<>>
    /\ Fetched = OpGetGlobal
    /\ Target \in DOMAIN stored

\* The instructions of the running submission have no SetGlobal on slot s.
NoStoreTo(s) ==
    LET ins == currentFrame(vm).fn.Instructions
    IN  \A i \in 1..(Len(ins) - 2) :
            ~(ins[i] = OpSetGlobal /\ ReadUint16(SliceFrom(ins, i)) = s)

\* C14: GetGlobal s pushes the value the session's latest SetGlobal s
\* stored, in the submission that stored it and in every later one.
C14_GlobalsOutliveSubmissions ==
    GlobalFetched =>
        /\ pc = "run"
        /\ vm.sp = Before.sp + 1
        /\ SameStored(StackTop(vm), stored[Target])

C14_Witness ==
    /\ GlobalFetched
    /\ Submitted = MaxSubmissions
    /\ NoStoreTo(Target)
    /\ StackTop(vm).Type = "STRING"

Scalars == {"INTEGER", "BOOLEAN", "NULL"}

\* Every Boolean and Null on the stack is one of the three singletons.
OnlySingletons ==
    \A i \in 0..(vm.sp - 1) :
        StackAt(vm, i).Type \in {"BOOLEAN", "NULL"} =>
            StackAt(vm, i).id \in {True.id, False.id, Null.id}

EqualityFetched ==
    /\ BinaryFetched({OpEqual, OpNotEqual})
    /\ LeftOperand.Type \in Scalars
    /\ RightOperand.Type \in Scalars

\* C21: on two operands that are Integers, Booleans or Null, Equal pushes
\* True exactly when they are the same variant with the same payload and
\* NotEqual pushes the opposite; every Boolean and Null on the stack is one
\* of the three singletons.
C21_EqualityOfScalars ==
    /\ OnlySingletons
    /\ EqualityFetched =>
          /\ PushedOne
          /\ SameValue(StackTop(vm),
                       IF SameValue(LeftOperand, RightOperand)
                             = (Fetched = OpEqual)
                       THEN True ELSE False)

C21_Witness ==
    /\ EqualityFetched
    /\ Fetched = OpEqual
    /\ Before.frames[1].fn.Instructions[2] = OpConstant
    /\ LeftOperand.Type = "BOOLEAN"
    /\ RightOperand.Type = "BOOLEAN"
    /\ SameValue(StackTop(vm), True)

ArrayFetched ==
    /\ trail # <<>>
    /\ Fetched = OpArray
    /\ Before.sp >= Target

\* C22: Array n pops the n topmost values and pushes one Array holding them
\* bottom-most first: sp changes by 1 - n, the slots under the n values are
\* as before, and Array 0 pushes an Array with no element.
C22_ArrayKeepsSourceOrder ==
    ArrayFetched =>
        LET n == Target
            base == Before.sp - n
        IN  /\ pc = "run"
            /\ vm.sp = base + 1
            /\ StackTop(vm).Type = "ARRAY"
            /\ Len(StackTop(vm).Elements) = n
            /\ \A i \in 1..n :
                  SameStored(StackTop(vm).Elements[i],
                             StackAt(Before, base + i - 1))
            /\ \A j \in 0..(base - 1) :
                  SameStored(StackAt(vm, j), StackAt(Before, j))

C22_Witness ==
    /\ ArrayFetched
    /\ Target = 3
    /\ Before.sp = 4
    /\ StackTop(vm).Elements[1].Type = "STRING"
    /\ StackTop(vm).Elements[3].Type = "BOOLEAN"

\* Call was fetched with a value on top of the stack and room for a frame.
CallFetched ==
    /\ UnaryFetched(OpCall)
    /\ Before.framesIndex < MaxFrames

IsFunction(v) == v.Type = "COMPILED_FUNCTION_OBJ"

\* C23: Call on a CompiledFunction pushes one frame for it and leaves the
\* stack as it was, and the next fetch is the callee's first instruction;
\* Call on any other value makes Run return "calling non-function" with no
\* frame pushed.
C23_CallPushesAFrame ==
    CallFetched =>
        /\ vm.sp = Before.sp
        /\ SameStored(StackTop(vm), Operand)
        /\ IF IsFunction(Operand)
           THEN /\ pc \in {"run", "returned"}
                /\ runErr = "nil"
                /\ vm.framesIndex = Before.framesIndex + 1
                /\ currentFrame(vm).fn.id = Operand.id
                /\ NextOffset(vm) = 0
                /\ (Operand.Instructions # <<>>
                      => NextOp(vm) = Operand.Instructions[1])
                /\ vm.frames[Before.framesIndex].fn.id
                      = currentFrame(Before).fn.id
                /\ vm.frames[Before.framesIndex].ip = FetchedAt
           ELSE /\ pc = "returned"
                /\ runErr = "calling non-function"
                /\ vm.framesIndex = Before.framesIndex

C23_Witness ==
    /\ CallFetched
    /\ IsFunction(Operand)
    /\ Before.framesIndex = 2
    /\ vm.framesIndex = 3
    /\ NextOp(vm) = OpConstant

\* ReturnValue was fetched in a callee frame whose reference, left by Call,
\* is right under the return value.
ReturnFetched ==
    /\ UnaryFetched(OpReturnValue)
    /\ Before.framesIndex >= 2
    /\ Before.sp >= 2
    /\ IsFunction(StackAt(Before, Before.sp - 2))
    /\ StackAt(Before, Before.sp - 2).id = currentFrame(Before).fn.id

LoweredKinds ==
    {"Program", "ExpressionStatement", "InfixExpression", "IntegerLiteral",
     "PrefixExpression", "IfExpression", "BlockStatement", "Boolean"}

\* An expression of the input set that Compile can lower whole: every node
\* is of a lowered kind and every operator has an opcode.
RECURSIVE Lowerable(_)
Lowerable(e) ==
    CASE e.kind = "InfixExpression" ->
            /\ e.Operator \in InfixOps
            /\ Lowerable(e.Left)
            /\ Lowerable(e.Right)
      [] e.kind = "PrefixExpression" ->
            e.Operator \in PrefixOps /\ Lowerable(e.Right)
      [] OTHER -> e.kind \in LoweredKinds

CompileReturned == pc # "start" /\ Len(program) = 1 /\ Len(compileErrs) = 1

\* C25: Compile returns an error for an expression with an unknown operator
\* and for one with a node of a kind it does not lower.
C25_UnloweredIsAnError ==
    (CompileReturned /\ ~Lowerable(Expression)) => compileErrs[1] # "nil"

\* C26: changeOperand at the offset of a JumpNotTruthy or Jump writes the
\* two bytes after the opcode, high byte first, with the operand's low 16
\* bits; the opcode, every other byte and the length of the buffer stay.
C26_BackPatchInPlace ==
    (pc = "patched") =>
        /\ Len(call.after) = Len(call.before)
        /\ call.after[call.opPos + 2] = (call.operand \div 256) % 256
        /\ call.after[call.opPos + 3] = call.operand % 256
        /\ \A i \in 1..Len(call.before) :
              i \notin {call.opPos + 2, call.opPos + 3} =>
                  call.after[i] = call.before[i]

C26_Witness ==
    /\ pc = "patched"
    /\ call.opPos = 7
    /\ call.operand = 257
    /\ call.before[call.opPos + 1] = OpJump
    /\ call.after # call.before

(***************************************************************************)
(* Eval on a program in a new environment, one statement of the program    *)
(* at a time (specification SpecEval).                                     *)
(***************************************************************************)
Call(function, args) == ES(CallExpression(function, args))
Fn(params, stmts) == FunctionLiteral(params, BlockStatement(stmts))
IfTrue(stmts) == IfExpression(BooleanLit(TRUE), BlockStatement(stmts), NoNode)

\* The integer literals that mark the statements before and after the one
\* a program is about.
Marks == [early |-> 1, late |-> 9, returned |-> 5]
Early == Marks.early
Late == Marks.late

\* stmt between two marks, inside `depth` blocks that each have a mark
\* before and after.
RECURSIVE Nest(_, _)
Nest(stmt, depth) ==
    <<ES(Lit(Early)),
      IF depth = 0 THEN stmt ELSE ES(IfTrue(Nest(stmt, depth - 1))),
      ES(Lit(Late))>>

\* The same inside the body of a function that is called between two
\* marks of its own.
NestInCall(stmt, depth) ==
    <<ES(Lit(Early)), Call(Fn(<<>>, Nest(stmt, depth)), <<>>), ES(Lit(Late))>>

Undefined == Identifier("foobar")
MinusTrue == PrefixExpression("-", BooleanLit(TRUE))

\* Statements that evaluate to an Error, with its message.
ErrorStmts ==
    <<[stmt |-> ES(MinusTrue), msg |-> "unknown operator: -"],
      [stmt |-> ES(InfixExpression("+", Lit(Early), BooleanLit(TRUE))),
       msg |-> "type mismatch"],
      [stmt |-> ES(InfixExpression("+", BooleanLit(TRUE), BooleanLit(FALSE))),
       msg |-> "unknown operator"],
      [stmt |-> ES(Undefined), msg |-> "identifier not found"],
      [stmt |-> LetStatement("a", Undefined), msg |-> "identifier not found"],
      [stmt |-> ReturnStatement(MinusTrue), msg |-> "unknown operator: -"],
      [stmt |-> Call(Lit(Early), <<>>), msg |-> "not a function"],
      [stmt |-> Call(Fn(<<"x", "y">>, <<ES(Lit(Late))>>),
                     <<Lit(Early), Undefined>>),
       msg |-> "identifier not found"],
      [stmt |-> Call(Fn(<<>>, <<ES(Lit(Early)), ES(Undefined), ES(Lit(Late))>>),
                     <<>>),
       msg |-> "identifier not found"],
      [stmt |-> ES(InfixExpression("+", Undefined, Lit(Late))),
       msg |-> "identifier not found"],
      [stmt |-> ES(IfExpression(Undefined, Block1(Lit(Late)), Block1(Lit(Late)))),
       msg |-> "identifier not found"]>>

Returned == Marks.returned
ReturnStmts ==
    <<ReturnStatement(Lit(Returned)),
      ReturnStatement(InfixExpression("+", Lit(2), Lit(3)))>>

\* A return in a block of an if-expression that is not a statement of its
\* own: the value of a let, an operand, an argument.
ReturnInExpression ==
    <<<<LetStatement("x", IfTrue(<<ReturnStatement(Lit(Returned))>>)),
        ES(Lit(Late))>>,
      <<ES(InfixExpression("+", IfTrue(<<ReturnStatement(Lit(Returned))>>),
                           Lit(Late)))>>,
      <<Call(Fn(<<"x">>, <<ES(Lit(Late))>>),
             <<IfTrue(<<ReturnStatement(Lit(Returned))>>)>>)>>>>

StringValues == <<<<97>>, <<98>>, <<97, 98>>, <<>>>>

\* let x = 1; let f = fn(x) { let y = x + 1; let z = 3; y };
\* let g = fn() { x }; let h = fn(x) { g() };
\* let newAdder = fn(x) { fn(y) { x + y } }; let addTwo = newAdder(2);
Prelude ==
    <<LetStatement("x", Lit(1)),
      LetStatement("f", Fn(<<"x">>,
          <<LetStatement("y", InfixExpression("+", Identifier("x"), Lit(1))),
            LetStatement("z", Lit(3)),
            ES(Identifier("y"))>>)),
      LetStatement("g", Fn(<<>>, <<ES(Identifier("x"))>>)),
      LetStatement("h", Fn(<<"x">>, <<Call(Identifier("g"), <<>>)>>)),
      LetStatement("newAdder", Fn(<<"x">>,
          <<ES(Fn(<<"y">>, <<ES(InfixExpression("+", Identifier("x"),
                                                Identifier("y")))>>))>>)),
      LetStatement("addTwo", CallExpression(Identifier("newAdder"), <<Lit(2)>>))>>

\* Calls of the functions of Prelude, with the Integer each one gives when
\* the global x is gx.
Calls ==
    <<Call(Identifier("f"), <<Lit(5)>>),
      Call(Identifier("g"), <<>>),
      Call(Identifier("h"), <<Lit(7)>>),
      Call(Identifier("addTwo"), <<Lit(3)>>),
      Call(Identifier("f"), <<Identifier("x")>>),
      Call(Identifier("newAdder"), <<Lit(4)>>)>>
CallValue(i, gx) ==
    CASE i = 1 -> 6
      [] i = 2 -> gx
      [] i = 3 -> gx
      [] i = 4 -> 5
      [] i = 5 -> gx + 1
      [] OTHER -> 0

\* What a program is about: the kind of its case, the statement or the
\* operands by index, the depth of the blocks around and whether they are
\* in a function body.
Case(kind, i, j, depth, inFn) ==
    [kind |-> kind, i |-> i, j |-> j, depth |-> depth, inFn |-> inFn]

Placed(stmt, c) ==
    IF c.inFn THEN NestInCall(stmt, c.depth) ELSE Nest(stmt, c.depth)

StatementsOf(c) ==
    CASE c.kind = "error" -> Placed(ErrorStmts[c.i].stmt, c)
      [] c.kind = "return" -> Placed(ReturnStmts[c.i], c)
      [] c.kind = "return in expression" -> ReturnInExpression[c.i]
      [] c.kind = "string" ->
            <<ES(InfixExpression(IF c.inFn THEN "==" ELSE "!=",
                                 StringLiteral(StringValues[c.i]),
                                 StringLiteral(StringValues[c.j])))>>
      [] c.kind = "scope" ->
            Prelude
            \o (IF c.inFn THEN <<LetStatement("x", Lit(4))>> ELSE <<>>)
            \o <<Calls[c.i], Calls[c.j]>>

Cases ==
    {Case("error", i, 0, d, f) :
        i \in 1..Len(ErrorStmts), d \in 0..MaxDepth, f \in BOOLEAN}
    \cup {Case("return", i, 0, d, f) :
            i \in 1..Len(ReturnStmts), d \in 0..MaxDepth, f \in BOOLEAN}
    \cup {Case("return in expression", i, 0, 0, FALSE) :
            i \in 1..Len(ReturnInExpression)}
    \cup {Case("string", i, j, 0, f) :
            i \in 1..Len(StringValues), j \in 1..Len(StringValues),
            f \in BOOLEAN}
    \cup {Case("scope", i, j, 0, f) :
            i \in 1..Len(Calls), j \in 1..Len(Calls), f \in BOOLEAN}

\* evaluator.Eval(program, object.NewEnvironment()): evalProgram is about to
\* evaluate the first statement.
EvalProgram ==
    /\ pc = "start"
    /\ \E c \in Cases :
          call' = [fn |-> "Eval", case |-> c, rest |-> StatementsOf(c),
                   h |-> NewHeap, before |-> NewHeap, result |-> Nil,
                   done |-> 0]
    /\ pc' = "eval"
    /\ UNCHANGED <<compiler, compileErrs, program, vm, runErr, trail, spAt,
                   stored>>

\* One iteration of evalProgram's loop.
EvalStatement ==
    /\ pc = "eval"
    /\ call.rest # <<>>
    /\ LET r == EvalIn(Head(call.rest), 1, call.h)
           over == r.val.Type = "RETURN_VALUE" \/ Stops(r.val)
       IN  /\ call' = [call EXCEPT
                         !.rest = Tail(@),
                         !.before = call.h,
                         !.h = r.h,
                         !.done = @ + 1,
                         !.result = IF r.val.Type = "RETURN_VALUE"
                                    THEN r.val.Value ELSE r.val]
           /\ pc' = IF over THEN "evaluated" ELSE "eval"
    /\ UNCHANGED <<compiler, compileErrs, program, vm, runErr, trail, spAt,
                   stored>>

\* evalProgram's loop ends: return result.
EvalReturns ==
    /\ pc = "eval"
    /\ call.rest = <<>>
    /\ pc' = "evaluated"
    /\ UNCHANGED <<compiler, compileErrs, program, vm, runErr, call, trail,
                   spAt, stored>>

NextEval == EvalProgram \/ EvalStatement \/ EvalReturns

SpecEval == Init /\ [][NextEval]_vars

Evaluating(kind) ==
    pc \in {"eval", "evaluated"} /\ call.fn = "Eval" /\ call.case.kind = kind
EvalOver(kind) == Evaluating(kind) /\ pc = "evaluated"

\* The integer literals evaluated so far.
Logged == {call.h.log[k] : k \in 1..Len(call.h.log)}

\* C27: a statement that evaluates to an Error, in the program or inside
\* blocks or a function body, ends the evaluation: the statements before it
\* were evaluated, none after it is, and Eval gives that Error.
C27_FirstErrorStopsEval ==
    /\ Evaluating("error") => Late \notin Logged
    /\ EvalOver("error") =>
          /\ call.result.Type = "ERROR"
          /\ call.result.Message = ErrorStmts[call.case.i].msg
          /\ Early \in Logged
          /\ call.done = 2

C27_Witness ==
    /\ EvalOver("error")
    /\ call.case.depth = MaxDepth
    /\ call.case.inFn
    /\ call.case.i = 9
    /\ call.result.Type = "ERROR"

ReturnsFive ==
    /\ call.result.Type = "INTEGER"
    /\ call.result.Value = Returned
    /\ Late \notin Logged

\* The call in the program gave the returned value and only the program's
\* own last statement was evaluated after it.
BodyReturnedFive ==
    /\ call.result.Type = "INTEGER"
    /\ call.result.Value = Late
    /\ call.done = 3
    /\ Cardinality({k \in 1..Len(call.h.log) : call.h.log[k] = Late}) = 1
    /\ Cardinality({k \in 1..Len(call.h.log) : call.h.log[k] = Early})
          = call.case.depth + 2

ReturnEndsStatementBlocks ==
    EvalOver("return") =>
        IF call.case.inFn THEN BodyReturnedFive ELSE ReturnsFive

C30_StringsCompareByContent ==
    EvalOver("string") =>
        /\ call.result.Type = "BOOLEAN"
        /\ call.result.Bool
              = ((StringValues[call.case.i] = StringValues[call.case.j])
                    = call.case.inFn)

\* The last statement evaluated was one of the two calls of a scope
\* program.
Defined == Len(Prelude) + (IF call.case.inFn THEN 1 ELSE 0)
CallEvaluated == Evaluating("scope") /\ call.done > Defined
Called == IF call.done = Defined + 1 THEN call.case.i ELSE call.case.j
Callee ==
    Get(call.before, 1,
        <<"f", "g", "h", "addTwo", "f", "newAdder">>[Called]).val
GlobalX == IF call.case.inFn THEN 4 ELSE 1
Innermost == Len(call.before.envs) + 1

SameEnvironment(a, b) ==
    /\ a.outer = b.outer
    /\ DOMAIN a.store = DOMAIN b.store
    /\ \A name \in DOMAIN a.store : SameStored(a.store[name], b.store[name])

\* C29: a call runs the body in a new environment enclosed by the one the
\* function captured; names resolve innermost first, then outward through
\* the captured chain, never through the caller; parameters and lets of the
\* body are bound in the new environment only, and every environment that
\* existed before the call is left as it was.
C29_CallsAreLexicallyScoped ==
    CallEvaluated =>
        /\ \A e \in 1..Len(call.before.envs) :
              SameEnvironment(call.before.envs[e], call.h.envs[e])
        /\ Len(call.h.envs) >= Innermost
        /\ call.h.envs[Innermost].outer = Callee.Env
        /\ Called \in {1, 5} =>
              /\ DOMAIN call.h.envs[Innermost].store = {"x", "y", "z"}
              /\ call.h.envs[Innermost].store["y"].Value = call.result.Value
        /\ IF Called = 6
           THEN call.result.Type = "FUNCTION" /\ call.result.Env = Innermost
           ELSE /\ call.result.Type = "INTEGER"
                /\ call.result.Value = CallValue(Called, GlobalX)

C29_Witness ==
    /\ CallEvaluated
    /\ call.done = Defined + 2
    /\ call.case.inFn
    /\ call.case.i = 3
    /\ call.case.j = 4
    /\ Callee.Env = 2
    /\ call.result.Type = "INTEGER"
    /\ call.result.Value = 5

(***************************************************************************)
(* Instructions.String(), one iteration of its loop at a time              *)
(* (specification SpecString).                                             *)
(***************************************************************************)
\* Bytes of a sequence to disassemble: opcodes with and without operands
\* and a byte that definitions does not hold.
StringBytes == {OpConstant, OpAdd, OpJump, OpIndex, 255}
ByteSeqs == SeqsUpTo(StringBytes, MaxBytes)

\* ReadOperands on a slice too short for a two-byte operand indexes it out
\* of range.
RECURSIVE OperandsInRange(_, _)
OperandsInRange(widths, ins) ==
    \/ widths = <<>>
    \/ /\ Head(widths) = 2 => Len(ins) >= 2
       /\ OperandsInRange(Tail(widths), SliceFrom(ins, Head(widths)))

\* ins.String(): i := 0
StartString ==
    /\ pc = "start"
    /\ \E ins \in ByteSeqs :
          call' = [fn |-> "String", ins |-> ins, i |-> 0, out |-> <<>>]
    /\ pc' = "string"
    /\ UNCHANGED <<compiler, compileErrs, program, vm, runErr, trail, spAt,
                   stored>>

\* One iteration of the loop `for i < len(ins)`.
StringIteration ==
    /\ pc = "string"
    /\ call.i < Len(call.ins)
    /\ Len(call.out) < MaxLines
    /\ LET looked == Lookup(call.ins[call.i + 1])
           rest == SliceFrom(call.ins, call.i + 1)
       IN  IF looked.err # "nil"
           THEN /\ call' = [call EXCEPT !.out = Append(@, "ERROR")]
                /\ pc' = "string"
           ELSE IF ~OperandsInRange(looked.def.OperandWidths, rest)
           THEN /\ call' = call
                /\ pc' = "panicked"
           ELSE /\ call' = [call EXCEPT
                              !.out = Append(@, looked.def.Name),
                              !.i = @ + 1 + ReadOperands(looked.def, rest).offset]
                /\ pc' = "string"
    /\ UNCHANGED <<compiler, compileErrs, program, vm, runErr, trail, spAt,
                   stored>>

\* The loop condition fails: return out.String().
StringReturns ==
    /\ pc = "string"
    /\ call.i >= Len(call.ins)
    /\ pc' = "returned"
    /\ UNCHANGED <<compiler, compileErrs, program, vm, runErr, call, trail,
                   spAt, stored>>

NextString == StartString \/ StringIteration \/ StringReturns

SpecString == Init /\ [][NextString]_vars

Iterated == pc = "string" /\ pc' = "string" /\ call' # call

\* C31: every iteration of the disassembler's loop moves its read offset
\* strictly forward, whatever the bytes, so String() returns after finitely
\* many iterations.
C31_DisassemblyMovesForward ==
    [][Iterated => call'.i > call.i]_vars

\* The same for the iterations that fetch a defined opcode.
DefinedMovesForward ==
    [][Iterated /\ call.ins[call.i + 1] \in DOMAIN definitions
          => call'.i > call.i]_vars

(***************************************************************************)
(* Compile of a program whose instructions pass 65535 bytes, at the last   *)
(* iteration of the Program case's statement loop (specification          *)
(* SpecLong).                                                              *)
(***************************************************************************)
\* The statement `1;` compiles to OpConstant k, OpPop: four bytes.  After
\* Filling of them the buffer holds 65536 bytes.
Filling == 65536 \div 4

\* The Compiler after the loop has compiled n statements `1;`.
CompiledLiterals(n) ==
    [New EXCEPT
       !.instructions =
          [i \in 1..(4 * n) |->
              CASE i % 4 = 1 -> OpConstant
                [] i % 4 = 2 -> ((i - 1) \div 4) \div 256
                [] i % 4 = 3 -> ((i - 1) \div 4) % 256
                [] OTHER -> OpPop],
       !.constants = [k \in 1..n |-> Integer(1)],
       !.lastInstruction = EmittedInstruction(OpPop, 4 * n - 1),
       !.previousInstruction = EmittedInstruction(OpConstant, 4 * n - 4)]

\* Short programs, and the one whose statements before the last fill 65536
\* bytes.
ShortLengths == 1..4
LongLengths == ShortLengths \cup {Filling}
Tails ==
    {ES(IfExpression(c, b, a)) :
        c \in Conds,
        b \in {Block1(Lit(1)), BlockStatement(<<ES(Lit(1)), ES(Lit(2))>>)},
        a \in {NoNode, Block1(Lit(2)), Block1(InnerIf)}}

\* err := c.Compile(program): the loop's iteration for the last statement
\* of a program of n statements `1;` and one more.
CompileLong ==
    /\ pc = "start"
    /\ \E n \in LongLengths :
         \E stmt \in (IF n \in ShortLengths THEN Tails ELSE {ES(InnerIf)}) :
            LET r == Compile(CompiledLiterals(n), stmt)
            IN  /\ compiler' = r.c
                /\ compileErrs' = <<r.err>>
                /\ program' = <<stmt>>
                /\ call' = [fn |-> "Compile", literals |-> n]
    /\ pc' = "compiled"
    /\ UNCHANGED <<vm, runErr, trail, spAt, stored>>

SpecLong == Init /\ [][CompileLong]_vars

\* CompiledLiterals is what Compile leaves.
CompiledLiteralsIsCompile ==
    \A n \in ShortLengths :
        CompiledLiterals(n)
            = Compile(New, Program([k \in 1..n |-> ES(Lit(1))])).c

\* The jumps of the last statement: its code starts where the code of the
\* statements before it ends.
TailStart == 4 * call.literals
JumpsOfTail ==
    {i \in Boundaries(compiler.instructions, TailStart) :
        /\ i < Len(compiler.instructions)
        /\ compiler.instructions[i + 1] \in {OpJump, OpJumpNotTruthy}}
TargetOf(i) == ReadUint16(SliceFrom(compiler.instructions, i + 1))

\* C32: every Jump and JumpNotTruthy the compiler emits targets an offset
\* strictly greater than its own position, so the instruction pointer only
\* moves forward and Run ends after finitely many iterations.
C32_JumpsGoForward ==
    (pc = "compiled" /\ call.fn = "Compile") =>
        \A i \in JumpsOfTail : TargetOf(i) > i

ShortJumpsGoForward ==
    (pc = "compiled" /\ call.fn = "Compile" /\ call.literals \in ShortLengths)
        => \A i \in JumpsOfTail : TargetOf(i) > i

(***************************************************************************)
(* Frames of Run (specification SpecVM).                                   *)
(***************************************************************************)
MainFrame == vm.frames[1]
ReturnedNil == pc = "returned" /\ runErr = "nil" /\ call.fn = "New"

\* C33: when Run returns nil only the main frame is left and it has run to
\* the end of the top-level instructions; the end of a callee's
\* instructions does not end Run while the caller has instructions left.
C33_NilOnlyAtEndOfMain ==
    ReturnedNil =>
        /\ vm.framesIndex = 1
        /\ MainFrame.ip >= Len(MainFrame.fn.Instructions) - 1

\* C34: while Run runs the frame stack holds at least the main frame, also
\* after a ReturnValue executed in the main frame.
C34_AlwaysAFrame ==
    (pc \in {"run", "returned"} /\ call.fn = "New") => vm.framesIndex >= 1

\* An iteration of Run's loop leaves the ip of every frame under the
\* current one as it was.
CallersKeepIp ==
    (pc = "run" /\ vm' # vm) =>
        \A k \in 1..(vm.framesIndex - 1) : vm'.frames[k].ip = vm.frames[k].ip

\* The last two iterations: a ReturnValue in a callee frame, then the one
\* after it.
AfterReturn ==
    /\ call.fn = "New"
    /\ Len(trail) = 2
    /\ trail[1].op = OpReturnValue
    /\ trail[1].vm.framesIndex >= 2
Returning == trail[1].vm
Caller == Returning.frames[Returning.framesIndex - 1]

ResumedAfterCall ==
    AfterReturn =>
        /\ Caller.fn.Instructions[Caller.ip + 1] = OpCall
        /\ trail[2].vm.framesIndex = Returning.framesIndex - 1
        /\ currentFrame(trail[2].vm).fn.id = Caller.fn.id
        /\ trail[2].at = Caller.ip + 1
        /\ (pc = "run" /\ vm.framesIndex = trail[2].vm.framesIndex)
              => NextOffset(vm) > trail[2].at

\* C35: each frame has its own ip: while a callee runs the ip of its caller
\* does not change, and after the callee's ReturnValue the next iteration
\* fetches the caller's instruction right after its Call, and the one after
\* that has moved on.
C35_IpPerFrame == []ResumedAfterCall /\ [][CallersKeepIp]_vars

C35_Witness ==
    /\ AfterReturn
    /\ Returning.framesIndex = 3
    /\ trail[2].op = OpReturnValue
    /\ trail[2].at = 4
    /\ vm.framesIndex = 1

\* Hash was fetched with its operand's values on the stack and built a hash.
HashFetched ==
    /\ trail # <<>>
    /\ Fetched = OpHash
    /\ Target % 2 = 0
    /\ Before.sp >= Target
    /\ pc = "run"
    /\ StackTop(vm).Type = "HASH"

\* The k-th pair in source order: the key is pushed before its value, the
\* first pair lowest on the stack.
PairKey(k) == StackAt(Before, Before.sp - Target + 2 * (k - 1))
PairValue(k) == StackAt(Before, Before.sp - Target + 2 * (k - 1) + 1)
PairsOfKey(k) ==
    {j \in 1..(Target \div 2) : HashKey(PairKey(j)) = HashKey(PairKey(k))}

LastOf(ks) == CHOOSE k \in ks : \A j \in ks : j <= k
FirstOf(ks) == CHOOSE k \in ks : \A j \in ks : k <= j

\* The hash holds, under the key of every pair, the value of the pair that
\* `pick` chooses among the pairs of that key, and nothing else.
HashKeeps(pick(_)) ==
    LET pairs == StackTop(vm).Pairs
    IN  /\ DOMAIN pairs = {HashKey(PairKey(k)) : k \in 1..(Target \div 2)}
        /\ \A k \in 1..(Target \div 2) :
              SameStored(pairs[HashKey(PairKey(k))].Value,
                         PairValue(pick(PairsOfKey(k))))

\* C38: when Hash n builds a hash from pairs of which two keys have the
\* same HashKey, the value stored for that key is the one of the pair that
\* comes last in source order, and the hash holds one entry per distinct
\* key.
C38_LastPairWins == HashFetched => HashKeeps(LastOf)

\* What the loop does: it pops the last pair first and every later store
\* overwrites, so the first pair in source order is the one that stays.
FirstPairWins == HashFetched => HashKeeps(FirstOf)

DuplicateKeyBuilt ==
    /\ HashFetched
    /\ Target = 6
    /\ \E k \in 1..3 : Cardinality(PairsOfKey(k)) = 2

\* C39: after every emit and every removeLastPop of a compilation, whenever
\* the buffer is not empty, lastInstruction names the opcode and the start of
\* the instruction that is last in the buffer; so lastInstructionIsPop is
\* true only if the buffer ends with a Pop, and removeLastPop, which cuts the
\* buffer at lastInstruction.Position, cuts exactly that Pop.
C39_WindowNamesLast ==
    /\ compiler.window
    /\ WindowNamesLast(compiler)
    /\ (compiler.instructions # <<>> /\ lastInstructionIsPop(compiler))
          => Last(compiler.instructions) = OpPop

\* Both branches of an if-expression had their last Pop removed, the
\* alternative's after an if-expression of its own.
C39_Witness ==
    /\ pc = "compiled"
    /\ compileErrs = <<"nil">>
    /\ Len(program) = 1
    /\ Len(program[1].Statements) = 1
    /\ program[1].Statements[1].Expression.kind = "IfExpression"
    /\ program[1].Statements[1].Expression.Alternative.kind = "BlockStatement"
    /\ Len(program[1].Statements[1].Expression.Alternative.Statements) = 2
    /\ Cardinality(compiler.ifSpans) >= 3
    /\ compiler.window

(***************************************************************************)
(* The REPL's loop over lines that are compiled with the shared symbol     *)
(* table and constants and run over the shared globals (specification     *)
(* SpecSession).  The symbol table and the compiler's LetStatement and     *)
(* Identifier cases follow the specification's sections 4.2 and 4.3.       *)
(***************************************************************************)
NewSymbolTable == [store |-> <<>>, numDefinitions |-> 0]

\* define(name): the next index of the scope.
Define(st, name) ==
    [store |-> (name :> st.numDefinitions) @@ st.store,
     numDefinitions |-> st.numDefinitions + 1]

\* resolve(name): the index, or absent.
Resolve(st, name) ==
    IF name \in DOMAIN st.store
    THEN [index |-> st.store[name], ok |-> TRUE]
    ELSE [index |-> 0, ok |-> FALSE]

\* compiler.NewWithState(symbolTable, constants)
NewWithState(symbolTable, constants) ==
    [instructions |-> <<>>,
     constants |-> constants,
     lastInstruction |-> EmittedInstruction(0, 0),
     previousInstruction |-> EmittedInstruction(0, 0),
     ifSpans |-> {},
     window |-> TRUE,
     symbolTable |-> symbolTable]

\* LetStatement: compile the value expression, then define the name and
\* emit SetGlobal slot.
CompileLet(c, value, name) ==
    IF value.err # "nil" THEN value
    ELSE LET defined == [value.c EXCEPT !.symbolTable = Define(@, name)]
         IN  Ok(emit(defined, OpSetGlobal,
                     <<Resolve(defined.symbolTable, name).index>>))

\* Identifier: resolve; absent is the error "undefined variable"; emit
\* GetGlobal slot.
CompileIdentifier(c, node) ==
    LET symbol == Resolve(c.symbolTable, node.Value)
    IN  IF ~symbol.ok THEN Err(c, "undefined variable")
        ELSE Ok(emit(c, OpGetGlobal, <<symbol.index>>))

\* Compile with the two cases above, for the statements of a line: a let
\* or an expression statement whose expression is an identifier or an
\* expression without names.
CompileName(c, node) ==
    IF node.kind = "Identifier" THEN CompileIdentifier(c, node)
    ELSE Compile(c, node)

\* ExpressionStatement: the expression, then Pop.
CompileExpressionStatement(value) ==
    IF value.err # "nil" THEN value ELSE Ok(emit(value.c, OpPop, <<>>))

CompileStatement(c, node) ==
    IF node.kind = "LetStatement"
    THEN CompileLet(c, CompileName(c, node.Value), node.Name)
    ELSE CompileExpressionStatement(CompileName(c, node.Expression))

\* The loop of the Program case: the first error ends it.
RECURSIVE CompileStatements(_, _)
CompileRest(r, stmts) ==
    IF r.err # "nil" THEN r ELSE CompileStatements(r.c, Tail(stmts))
CompileStatements(c, stmts) ==
    IF stmts = <<>> THEN Ok(c)
    ELSE CompileRest(CompileStatement(c, Head(stmts)), stmts)

\* The lines of a session: lets whose value runs, fails at run time, fails
\* to compile or reads another name; reads of names; a let followed by a
\* statement that does not compile; the empty line.
RunFails == InfixExpression("+", Lit(1), BooleanLit(TRUE))
Lines ==
    {<<>>,
     <<LetStatement("x", Lit(1))>>,
     <<LetStatement("x", RunFails)>>,
     <<LetStatement("x", InfixExpression("&", Lit(1), Lit(2)))>>,
     <<LetStatement("y", Identifier("x"))>>,
     <<LetStatement("y", Lit(2)), ES(Identifier("z"))>>,
     <<ES(Identifier("x"))>>,
     <<ES(Identifier("y"))>>,
     <<ES(Lit(2)), ES(Identifier("x"))>>,
     <<ES(RunFails), LetStatement("y", Lit(2))>>}

\* The symbol table and the constants the REPL holds outside its loop.
SessionTable ==
    IF call.fn = "StartVMRepl" THEN call.symbolTable ELSE NewSymbolTable
SessionConstants == IF call.fn = "StartVMRepl" THEN call.constants ELSE <<>>

\* One line: c := compiler.NewWithState(symbolTable, constants);
\* err := c.Compile(program); on an error `continue`, else
\* constants = code.Constants and the machine is made over globals.
SubmitLine ==
    /\ AtPrompt
    /\ \E line \in Lines :
         \E r \in {CompileStatements(
                       NewWithState(SessionTable, SessionConstants), line)} :
             /\ compiler' = r.c
             /\ compileErrs' = <<r.err>>
             /\ program' = <<Program(line)>>
             /\ call' = [fn |-> "StartVMRepl", n |-> Submitted + 1,
                         symbolTable |-> r.c.symbolTable,
                         constants |-> IF r.err = "nil" THEN r.c.constants
                                       ELSE SessionConstants]
             /\ IF r.err = "nil"
                THEN /\ vm' = [NewWithGlobalsStore(Bytecode(r.c), vm.globals)
                                  EXCEPT !.nextId = vm.nextId]
                     /\ pc' = "run"
                ELSE /\ vm' = vm
                     /\ pc' = "returned"
    /\ runErr' = "nil"
    /\ trail' = <<>>
    /\ UNCHANGED <<spAt, stored>>

NextSession == SubmitLine \/ RunIteration \/ RunReturns

SpecSession == Init /\ [][NextSession]_vars

InSession == call.fn = "StartVMRepl" /\ compileErrs = <<"nil">>

\* C36: every GetGlobal a session executes reads a slot that a SetGlobal
\* executed in the same or an earlier submission wrote, whatever
\* submissions failed before: the value it pushes is never an unset slot.
C36_GlobalsReadAreWritten ==
    (InSession /\ trail # <<>> /\ Fetched = OpGetGlobal) =>
        /\ NextOperand(Before) \in DOMAIN stored
        /\ StackTop(vm).Type # "nil"

\* C37: after a submission that compiled and ran without error,
\* LastPoppedStackElem() is a value, so its inspection form can be printed.
C37_LastPoppedIsAValue ==
    (InSession /\ pc = "returned" /\ runErr = "nil") =>
        LastPoppedStackElem(vm).Type # "nil"

====
